---- MODULE Spec2Model ----
(***************************************************************************)
(* A model of the byte-addressable ring buffer FIFO of ringbuf.c.          *)
(*                                                                         *)
(* A ring buffer is a record [size, buf, head, tail]: buf is the backing   *)
(* array (cells 0 .. size-1), head and tail are the offsets of the C       *)
(* pointers rb->head and rb->tail from rb->buf.  Every ringbuf_* function  *)
(* is an operator that computes what the C function computes, loops        *)
(* included; every action applies one function to one of the buffers and   *)
(* records what the caller can see of the call in the variable last.       *)
(***************************************************************************)
EXTENDS Integers, Sequences, FiniteSets, TLC

\* ------------------------------------------------------------------------
\* Bounds of the model.

\* The backing array of buffer 1 has MaxSize cells; that of buffer 2 is the
\* smallest there is, two cells (two buffers of different capacities, as rb1
\* and rb3 of the tests).
MaxSize == 3

\* The largest count a caller passes to an operation.
MaxCount == 5

\* ------------------------------------------------------------------------
\* Model values.

\* The two ring buffers of the program (rb1 and rb2 of the tests).
RB == {1, 2}

\* The byte values a producer stores.
Byte == {0, 1}

\* The size of each buffer's backing array.
SizeOf(r) == IF r = 1 THEN MaxSize ELSE 2

Counts == 0 .. MaxCount

\* The byte the caller's destination memory holds before a call; it is no
\* value a producer ever stores.
Poison == Cardinality(Byte)

\* size_t is an unsigned type: arithmetic on it is modulo SizeTMod.  The
\* width is scaled down with the buffers; it stays far above every size and
\* count of the model.
SizeTMod == 2 ^ 16

SizeT(x) == x % SizeTMod

MIN(a, b) == IF a < b THEN a ELSE b

\* A source area of n bytes holding the two-byte pattern p repeated.
fill_buffer(n, p) == [i \in 1 .. n |-> p[((i - 1) % Len(p)) + 1]]

Patterns == {<<a, b>> : a \in Byte, b \in Byte}

\* Return values: the null pointer / 0, a pointer into a buffer (its offset
\* from rb->buf), or a signed count.
Null == [kind |-> "null", val |-> 0]

\* Faulty variant of Ptr: the offset itself is returned, so that a cursor at
\* the start of the array reads as the null pointer.
Ptr_offset(off) == IF off = 0 THEN Null ELSE [kind |-> "ptr", val |-> off]

Ptr(off) == [kind |-> "ptr", val |-> off]

\* Faulty variant of SSize: an error of the primitive is returned as 0.
SSize_noerror(n) == [kind |-> "ssize", val |-> IF n < 0 THEN 0 ELSE n]

SSize(n) == [kind |-> "ssize", val |-> n]

VARIABLES
    rb,       \* rb[r]: the ring buffer r, [size, buf, head, tail]
    q,        \* q[r]: the abstract FIFO queue run side by side with rb[r]
    last,     \* what the caller saw of the last call
    aborted   \* an assert() failed: the program has stopped

vars == <<rb, q, last, aborted>>

\* ------------------------------------------------------------------------
\* Queries.

\* Faulty variant of ringbuf_capacity: the reserved byte is counted as usable.
ringbuf_capacity_whole(b) == b.size

ringbuf_capacity(b) == b.size - 1

ringbuf_end(b) == b.size

\* Faulty variants of ringbuf_bytes_free: the reserved byte not subtracted when the
\* live region wraps; the wrapped case not told apart.
ringbuf_bytes_free_noreserve(b) ==
    IF b.head >= b.tail
    THEN SizeT(ringbuf_capacity(b) - (b.head - b.tail))
    ELSE SizeT(b.tail - b.head)

ringbuf_bytes_free_nobranch(b) ==
    SizeT(ringbuf_capacity(b) - (b.head - b.tail))

ringbuf_bytes_free(b) ==
    IF b.head >= b.tail
    THEN SizeT(ringbuf_capacity(b) - (b.head - b.tail))
    ELSE SizeT(b.tail - b.head - 1)

ringbuf_bytes_used(b) == SizeT(ringbuf_capacity(b) - ringbuf_bytes_free(b))

ringbuf_is_full(b) == ringbuf_bytes_free(b) = 0

ringbuf_is_empty(b) == ringbuf_bytes_free(b) = ringbuf_capacity(b)

ringbuf_tail(b) == b.tail

ringbuf_head(b) == b.head

\* Faulty variants of ringbuf_smash_tail: no wrap at the end of the array; the tail
\* put on the head instead of one past it.
ringbuf_smash_tail_nowrap(b) == b.head + 1

ringbuf_smash_tail_onhead(b) == b.head

\* Faulty variant: the tail put two ahead of the head.
ringbuf_smash_tail_twoahead(b) == (b.head + 2) % ringbuf_end(b)

ringbuf_smash_tail(b) ==
    LET bufend == ringbuf_end(b)
    IN IF b.head + 1 = bufend THEN 0 ELSE b.head + 1

\* "wrap?": a cursor that has reached one-past-the-end goes back to the start
\* of the array (if (p == bufend) p = rb->buf).  Faulty variants: no wrap;
\* the wrap made one cell early, on the last cell of the array.
wrap_never(p, bufend) == p

wrap_early(p, bufend) == IF p >= bufend - 1 THEN 0 ELSE p

wrap(p, bufend) == IF p = bufend THEN 0 ELSE p

\* ------------------------------------------------------------------------
\* memcpy(3): n bytes of the sequence src, from its (0-based) offset from,
\* stored into the array a at offset at.

\* Faulty variant: the source offset (src + nread) forgotten.
memcpy_in_nooffset(a, at, src, from, n) ==
    [i \in DOMAIN a |->
        IF at <= i /\ i < at + n THEN src[(i - at) + 1] ELSE a[i]]

memcpy_in(a, at, src, from, n) ==
    [i \in DOMAIN a |->
        IF at <= i /\ i < at + n THEN src[from + (i - at) + 1] ELSE a[i]]

\* n cells of the array a, from offset at, as a sequence.  Faulty variant:
\* the cells are taken from the start of the array.
cells_from_start(a, at, n) == [i \in 1 .. n |-> a[i - 1]]

cells(a, at, n) == [i \in 1 .. n |-> a[at + i - 1]]

\* ------------------------------------------------------------------------
\* ringbuf_init: reset to empty; the backing array is not touched.

\* Faulty variant of ringbuf_init: only head goes back to the start.
ringbuf_init_head(b) == [b EXCEPT !.head = 0]

ringbuf_init(b) == [b EXCEPT !.head = 0, !.tail = 0]

\* ------------------------------------------------------------------------
\* ringbuf_memcpy_into.  The loop state is the buffer, nread, the number of
\* memcpy segments made, whether each segment stayed inside the array, and
\* whether every assert() passed.

\* Faulty variants of the loop: one memcpy of the whole count, not split at
\* the end of the array; one memcpy for every byte.
memcpy_into_loop_single(dst, src, count, nread, segs, inb) ==
    IF count = 0
    THEN [rb |-> dst, segs |-> 0, inb |-> TRUE, ok |-> TRUE]
    ELSE [rb |-> [dst EXCEPT !.buf = memcpy_in(dst.buf, dst.head, src, 0, count),
                             !.head = (dst.head + count) % ringbuf_end(dst)],
          segs |-> 1, inb |-> dst.head + count <= ringbuf_end(dst), ok |-> TRUE]

RECURSIVE memcpy_into_loop_bytes(_, _, _, _, _, _)
memcpy_into_loop_bytes(dst, src, count, nread, segs, inb) ==
    IF nread = count
    THEN [rb |-> dst, segs |-> segs, inb |-> inb, ok |-> TRUE]
    ELSE memcpy_into_loop_bytes(
             [dst EXCEPT !.buf = memcpy_in(dst.buf, dst.head, src, nread, 1),
                         !.head = wrap(dst.head + 1, ringbuf_end(dst))],
             src, count, nread + 1, segs + 1, inb)

RECURSIVE memcpy_into_loop(_, _, _, _, _, _)
memcpy_into_loop(dst, src, count, nread, segs, inb) ==
    IF nread = count
    THEN [rb |-> dst, segs |-> segs, inb |-> inb, ok |-> TRUE]
    ELSE LET bufend == ringbuf_end(dst)
         IN IF ~(bufend > dst.head)
            THEN [rb |-> dst, segs |-> segs, inb |-> inb, ok |-> FALSE]
            ELSE LET n == MIN(bufend - dst.head, count - nread)
                     copied == memcpy_in(dst.buf, dst.head, src, nread, n)
                     wrapped == wrap(dst.head + n, bufend)
                 IN memcpy_into_loop(
                        [dst EXCEPT !.buf = copied, !.head = wrapped],
                        src, count, nread + n, segs + 1,
                        inb /\ n >= 1 /\ dst.head + n <= bufend)

\* The tail fix-up of an overflowed buffer, with its assert.  Faulty variant:
\* the tail is left where it was.
fix_overflow_skip(b) == [rb |-> b, ok |-> TRUE]

fix_overflow(b) ==
    LET smashed == [b EXCEPT !.tail = ringbuf_smash_tail(b)]
    IN [rb |-> smashed, ok |-> ringbuf_is_full(smashed)]

ringbuf_memcpy_into(dst, src, count) ==
    LET overflow == count > ringbuf_bytes_free(dst)
        l == memcpy_into_loop(dst, src, count, 0, 0, TRUE)
        f == IF l.ok /\ overflow THEN fix_overflow(l.rb) ELSE [rb |-> l.rb, ok |-> l.ok]
    IN [rb |-> f.rb, ret |-> Ptr(f.rb.head), ok |-> f.ok, overflow |-> overflow,
        segs |-> l.segs, inb |-> l.inb]

\* ------------------------------------------------------------------------
\* ringbuf_read.  read(2) is the external primitive: asked for at most req
\* bytes at rb->head, it returns n in -1 .. req and, when n > 0, has stored
\* the first n bytes of data there.

\* Faulty variant of read_request: the count is clamped to the size of the
\* array, not to the run from head to its end.
read_request_array(b, count) == MIN(ringbuf_end(b), count)

\* Faulty variant: the request is also clamped to the free bytes, so that a
\* full buffer asks read(2) for nothing.
read_request_free(b, count) ==
    MIN(MIN(ringbuf_end(b) - b.head, count), ringbuf_bytes_free(b))

read_request(b, count) == MIN(ringbuf_end(b) - b.head, count)

sys_read(b, req, n, data) ==
    IF n > 0 THEN [b EXCEPT !.buf = memcpy_in(b.buf, b.head, data, 0, n)] ELSE b

\* Faulty variant: a request of no bytes returns 0 at once; otherwise the
\* primitive is called until it fails or the whole request is served.
ringbuf_read_loops(b, count, n, data) ==
    LET req == read_request(b, count)
        stored == sys_read(b, req, n, data)
        wrapped == [stored EXCEPT !.head = wrap(b.head + n, ringbuf_end(b))]
    IN IF count = 0
       THEN [rb |-> b, ret |-> SSize(0), ok |-> TRUE, overflow |-> FALSE,
             calls |-> 0, req |-> 0]
       ELSE IF n > 0
       THEN [rb |-> wrapped, ret |-> SSize(n), ok |-> TRUE, overflow |-> FALSE,
             calls |-> IF n < req THEN 2 ELSE 1, req |-> req]
       ELSE [rb |-> b, ret |-> SSize(n), ok |-> TRUE, overflow |-> FALSE,
             calls |-> 1, req |-> req]

ringbuf_read(b, count, n, data) ==
    LET bufend == ringbuf_end(b)
        nfree == ringbuf_bytes_free(b)
        a1 == bufend > b.head
        req == read_request(b, count)
        stored == sys_read(b, req, n, data)
        a2 == b.head + n <= bufend
        wrapped == [stored EXCEPT !.head = wrap(b.head + n, bufend)]
        overflow == n > nfree
        f == IF overflow THEN fix_overflow(wrapped) ELSE [rb |-> wrapped, ok |-> TRUE]
    IN IF ~a1
       THEN [rb |-> b, ret |-> SSize(0), ok |-> FALSE, overflow |-> FALSE,
             calls |-> 0, req |-> 0]
       ELSE IF n > 0
       THEN IF ~a2
            THEN [rb |-> stored, ret |-> SSize(n), ok |-> FALSE, overflow |-> FALSE,
                  calls |-> 1, req |-> req]
            ELSE [rb |-> f.rb, ret |-> SSize(n), ok |-> f.ok, overflow |-> overflow,
                  calls |-> 1, req |-> req]
       ELSE [rb |-> stored, ret |-> SSize(n), ok |-> TRUE, overflow |-> FALSE,
             calls |-> 1, req |-> req]

\* ------------------------------------------------------------------------
\* ringbuf_memcpy_from.  mem is the caller's destination area (a sequence);
\* the loop stores into it from its first byte on.

\* Faulty variant: one byte too few is copied.
store_short(mem, at, a, from, n) ==
    [i \in DOMAIN mem |->
        IF at < i /\ i < at + n THEN a[from + (i - at) - 1] ELSE mem[i]]

store(mem, at, a, from, n) ==
    [i \in DOMAIN mem |->
        IF at < i /\ i <= at + n THEN a[from + (i - at) - 1] ELSE mem[i]]

RECURSIVE memcpy_from_loop(_, _, _, _, _, _)
memcpy_from_loop(mem, src, count, nwritten, segs, inb) ==
    IF nwritten = count
    THEN [rb |-> src, mem |-> mem, segs |-> segs, inb |-> inb, ok |-> TRUE]
    ELSE LET bufend == ringbuf_end(src)
         IN IF ~(bufend > src.tail)
            THEN [rb |-> src, mem |-> mem, segs |-> segs, inb |-> inb, ok |-> FALSE]
            ELSE LET n == MIN(bufend - src.tail, count - nwritten)
                     copied == store(mem, nwritten, src.buf, src.tail, n)
                     wrapped == wrap(src.tail + n, bufend)
                 IN memcpy_from_loop(
                        copied, [src EXCEPT !.tail = wrapped],
                        count, nwritten + n, segs + 1,
                        inb /\ n >= 1 /\ src.tail + n <= bufend)

\* The underflow test: count > bytes_used.  Faulty variant: the count is
\* compared with the capacity.
memcpy_from_refuses_never(src, count) == count > ringbuf_capacity(src)

\* Faulty variant: a count equal to the bytes used is refused as well, so
\* that nothing can be asked of an empty buffer.
memcpy_from_refuses_equal(src, count) == count >= ringbuf_bytes_used(src)

memcpy_from_refuses(src, count) == count > ringbuf_bytes_used(src)

ringbuf_memcpy_from(mem, src, count) ==
    LET bytes_used == ringbuf_bytes_used(src)
        l == memcpy_from_loop(mem, src, count, 0, 0, TRUE)
    IN IF memcpy_from_refuses(src, count)
       THEN [rb |-> src, mem |-> mem, ret |-> Null, ok |-> TRUE,
             segs |-> 0, inb |-> TRUE]
       ELSE [rb |-> l.rb, mem |-> l.mem, ret |-> Ptr(l.rb.tail),
             ok |-> l.ok /\ SizeT(count + ringbuf_bytes_used(l.rb)) = bytes_used,
             segs |-> l.segs, inb |-> l.inb]

\* ------------------------------------------------------------------------
\* ringbuf_write.  write(2) is the external primitive: handed req bytes at
\* rb->tail, it returns n in -1 .. req and, when n > 0, has taken the first
\* n of them.

\* Faulty variant of write_request: one byte at a time.
write_request_byte(b, count) == MIN(ringbuf_end(b) - b.tail, MIN(count, 1))

write_request(b, count) == MIN(ringbuf_end(b) - b.tail, count)

\* The underflow test: count > bytes_used.  Faulty variant: the count is
\* compared with the capacity.
write_refuses_never(b, count) == count > ringbuf_capacity(b)

write_refuses(b, count) == count > ringbuf_bytes_used(b)

sys_write(b, req, n) == IF n > 0 THEN cells(b.buf, b.tail, n) ELSE <<>>

\* Faulty variant: a request of no bytes returns 0 without calling the
\* primitive.
ringbuf_write_skips(b, count, n) ==
    LET req == write_request(b, count)
        wrapped == [b EXCEPT !.tail = wrap(b.tail + n, ringbuf_end(b))]
    IN IF write_refuses(b, count) \/ count = 0
       THEN [rb |-> b, ret |-> SSize(0), ok |-> TRUE, calls |-> 0, req |-> 0,
             out |-> <<>>]
       ELSE [rb |-> IF n > 0 THEN wrapped ELSE b, ret |-> SSize(n), ok |-> TRUE,
             calls |-> 1, req |-> req, out |-> sys_write(b, req, n)]

ringbuf_write(b, count, n) ==
    LET bytes_used == ringbuf_bytes_used(b)
        bufend == ringbuf_end(b)
        a1 == bufend > b.head
        req == write_request(b, count)
        a2 == b.tail + n <= bufend
        wrapped == [b EXCEPT !.tail = wrap(b.tail + n, bufend)]
        a3 == SizeT(n + ringbuf_bytes_used(wrapped)) = bytes_used
    IN IF write_refuses(b, count)
       THEN [rb |-> b, ret |-> SSize(0), ok |-> TRUE, calls |-> 0, req |-> 0,
             out |-> <<>>]
       ELSE IF ~a1
       THEN [rb |-> b, ret |-> SSize(0), ok |-> FALSE, calls |-> 0, req |-> 0,
             out |-> <<>>]
       ELSE IF n > 0
       THEN [rb |-> IF a2 THEN wrapped ELSE b, ret |-> SSize(n), ok |-> a2 /\ a3,
             calls |-> 1, req |-> req, out |-> sys_write(b, req, n)]
       ELSE [rb |-> b, ret |-> SSize(n), ok |-> TRUE, calls |-> 1, req |-> req,
             out |-> sys_write(b, req, n)]

\* ------------------------------------------------------------------------
\* ringbuf_copy: buffer to buffer, src and dst two different buffers.

\* Faulty variant of the loop: one memcpy for every byte.
RECURSIVE copy_loop_bytes(_, _, _, _, _, _, _)
copy_loop_bytes(dst, src, count, ncopied, segs, inb, out) ==
    IF ncopied = count
    THEN [dst |-> dst, src |-> src, segs |-> segs, inb |-> inb, out |-> out,
          ok |-> TRUE]
    ELSE LET piece == cells(src.buf, src.tail, 1)
         IN copy_loop_bytes(
                [dst EXCEPT !.buf = memcpy_in(dst.buf, dst.head, piece, 0, 1),
                            !.head = wrap(dst.head + 1, ringbuf_end(dst))],
                [src EXCEPT !.tail = wrap(src.tail + 1, ringbuf_end(src))],
                count, ncopied + 1, segs + 1, inb, out \o piece)

RECURSIVE copy_loop(_, _, _, _, _, _, _)
copy_loop(dst, src, count, ncopied, segs, inb, out) ==
    IF ncopied = count
    THEN [dst |-> dst, src |-> src, segs |-> segs, inb |-> inb, out |-> out,
          ok |-> TRUE]
    ELSE LET src_bufend == ringbuf_end(src)
             dst_bufend == ringbuf_end(dst)
         IN IF ~(src_bufend > src.tail) \/ ~(dst_bufend > dst.head)
            THEN [dst |-> dst, src |-> src, segs |-> segs, inb |-> inb,
                  out |-> out, ok |-> FALSE]
            ELSE LET nsrc == MIN(src_bufend - src.tail, count - ncopied)
                     n == MIN(dst_bufend - dst.head, nsrc)
                     piece == cells(src.buf, src.tail, n)
                     copied == memcpy_in(dst.buf, dst.head, piece, 0, n)
                 IN copy_loop(
                        [dst EXCEPT !.buf = copied,
                                    !.head = wrap(dst.head + n, dst_bufend)],
                        [src EXCEPT !.tail = wrap(src.tail + n, src_bufend)],
                        count, ncopied + n, segs + 1,
                        inb /\ n >= 1 /\ src.tail + n <= src_bufend
                            /\ dst.head + n <= dst_bufend,
                        out \o piece)

\* The underflow test on src: count > src_bytes_used.  Faulty variant: the
\* count is compared with the capacity.
copy_refuses_never(src, count) == count > ringbuf_capacity(src)

copy_refuses(src, count) == count > ringbuf_bytes_used(src)

\* Faulty variant of ringbuf_copy: the bytes copied stay in src.
ringbuf_copy_keeps(dst, src, count) ==
    LET overflow == count > ringbuf_bytes_free(dst)
        l == copy_loop(dst, src, count, 0, 0, TRUE, <<>>)
        f == IF l.ok /\ overflow THEN fix_overflow(l.dst) ELSE [rb |-> l.dst, ok |-> l.ok]
    IN IF copy_refuses(src, count)
       THEN [dst |-> dst, src |-> src, ret |-> Null, ok |-> TRUE, overflow |-> FALSE,
             segs |-> 0, inb |-> TRUE, out |-> <<>>]
       ELSE [dst |-> f.rb, src |-> src, ret |-> Ptr(f.rb.head), ok |-> f.ok,
             overflow |-> overflow, segs |-> l.segs, inb |-> l.inb, out |-> l.out]

ringbuf_copy(dst, src, count) ==
    LET src_bytes_used == ringbuf_bytes_used(src)
        overflow == count > ringbuf_bytes_free(dst)
        l == copy_loop(dst, src, count, 0, 0, TRUE, <<>>)
        a == l.ok /\ SizeT(count + ringbuf_bytes_used(l.src)) = src_bytes_used
        f == IF a /\ overflow THEN fix_overflow(l.dst) ELSE [rb |-> l.dst, ok |-> a]
    IN IF copy_refuses(src, count)
       THEN [dst |-> dst, src |-> src, ret |-> Null, ok |-> TRUE, overflow |-> FALSE,
             segs |-> 0, inb |-> TRUE, out |-> <<>>]
       ELSE [dst |-> f.rb, src |-> l.src, ret |-> Ptr(f.rb.head), ok |-> f.ok,
             overflow |-> overflow, segs |-> l.segs, inb |-> l.inb, out |-> l.out]

\* ------------------------------------------------------------------------
\* ringbuf_copy(b, b, count): dst and src the same buffer.  Every step of the
\* loop moves both cursors of b.  memcpy(3) between areas that overlap is
\* undefined: the cells it stores into then hold any bytes (those of junk).

overlap(b, n) ==
    /\ n > 0
    /\ b.head < b.tail + n
    /\ b.tail < b.head + n

memcpy_self(b, n, junk) ==
    IF overlap(b, n)
    THEN [i \in DOMAIN b.buf |->
            IF b.head <= i /\ i < b.head + n THEN junk[i] ELSE b.buf[i]]
    ELSE memcpy_in(b.buf, b.head, cells(b.buf, b.tail, n), 0, n)

RECURSIVE copy_self_loop(_, _, _, _, _, _, _)
copy_self_loop(b, count, ncopied, segs, inb, out, junk) ==
    IF ncopied = count
    THEN [rb |-> b, segs |-> segs, inb |-> inb, out |-> out, ok |-> TRUE]
    ELSE LET bufend == ringbuf_end(b)
         IN IF ~(bufend > b.tail) \/ ~(bufend > b.head)
            THEN [rb |-> b, segs |-> segs, inb |-> inb, out |-> out, ok |-> FALSE]
            ELSE LET nsrc == MIN(bufend - b.tail, count - ncopied)
                     n == MIN(bufend - b.head, nsrc)
                     piece == cells(b.buf, b.tail, n)
                     copied == memcpy_self(b, n, junk)
                 IN copy_self_loop(
                        [b EXCEPT !.buf = copied,
                                  !.tail = wrap(b.tail + n, bufend),
                                  !.head = wrap(b.head + n, bufend)],
                        count, ncopied + n, segs + 1,
                        inb /\ n >= 1 /\ b.tail + n <= bufend /\ b.head + n <= bufend,
                        out \o piece, junk)

ringbuf_copy_self(b, count, junk) ==
    LET src_bytes_used == ringbuf_bytes_used(b)
        overflow == count > ringbuf_bytes_free(b)
        l == copy_self_loop(b, count, 0, 0, TRUE, <<>>, junk)
        a == l.ok /\ SizeT(count + ringbuf_bytes_used(l.rb)) = src_bytes_used
        f == IF a /\ overflow THEN fix_overflow(l.rb) ELSE [rb |-> l.rb, ok |-> a]
    IN IF copy_refuses(b, count)
       THEN [rb |-> b, ret |-> Null, ok |-> TRUE, overflow |-> FALSE,
             segs |-> 0, inb |-> TRUE, out |-> <<>>]
       ELSE [rb |-> f.rb, ret |-> Ptr(f.rb.head), ok |-> f.ok,
             overflow |-> overflow, segs |-> l.segs, inb |-> l.inb, out |-> l.out]

\* ------------------------------------------------------------------------
\* ringbuf_buffer_size and ringbuf_memset (of the interface ringbuf.h): the
\* fill is clamped to one pass over the backing array, then stored at head
\* like a copy, with the same tail fix-up.

ringbuf_buffer_size(b) == b.size

RECURSIVE memset_loop(_, _, _, _, _, _)
memset_loop(dst, c, count, nwritten, segs, inb) ==
    IF nwritten = count
    THEN [rb |-> dst, segs |-> segs, inb |-> inb, ok |-> TRUE]
    ELSE LET bufend == ringbuf_end(dst)
         IN IF ~(bufend > dst.head)
            THEN [rb |-> dst, segs |-> segs, inb |-> inb, ok |-> FALSE]
            ELSE LET n == MIN(bufend - dst.head, count - nwritten)
                     filled == [i \in DOMAIN dst.buf |->
                                  IF dst.head <= i /\ i < dst.head + n
                                  THEN c ELSE dst.buf[i]]
                     wrapped == wrap(dst.head + n, bufend)
                 IN memset_loop(
                        [dst EXCEPT !.buf = filled, !.head = wrapped],
                        c, count, nwritten + n, segs + 1,
                        inb /\ n >= 1 /\ dst.head + n <= bufend)

\* Faulty variant of ringbuf_memset: the length is not clamped to one pass
\* over the array.
ringbuf_memset_unclamped(dst, c, len) ==
    LET overflow == len > ringbuf_bytes_free(dst)
        l == memset_loop(dst, c, len, 0, 0, TRUE)
        f == IF l.ok /\ overflow THEN fix_overflow(l.rb) ELSE [rb |-> l.rb, ok |-> l.ok]
    IN [rb |-> f.rb, ret |-> SSize(len), ok |-> f.ok, overflow |-> overflow,
        segs |-> l.segs, inb |-> l.inb]

ringbuf_memset(dst, c, len) ==
    LET count == MIN(len, ringbuf_buffer_size(dst))
        overflow == count > ringbuf_bytes_free(dst)
        l == memset_loop(dst, c, count, 0, 0, TRUE)
        f == IF l.ok /\ overflow THEN fix_overflow(l.rb) ELSE [rb |-> l.rb, ok |-> l.ok]
    IN [rb |-> f.rb, ret |-> SSize(count), ok |-> f.ok, overflow |-> overflow,
        segs |-> l.segs, inb |-> l.inb]

\* ------------------------------------------------------------------------
\* ringbuf_new and ringbuf_free (of the interface ringbuf.h).  A handle is
\* a pointer to the control structure: Null, or the buffer it points to.
\* ringbuf_new allocates capacity + 1 bytes, whose contents mem are whatever
\* the memory held, and resets the cursors; it returns Null when there is
\* not enough memory.  ringbuf_free releases the buffer and stores 0 in the
\* caller's handle.

\* Faulty variant of ringbuf_new: no byte is added to tell full from empty.
ringbuf_new_exact(capacity, mem, enough) ==
    IF ~enough THEN Null
    ELSE ringbuf_init([size |-> SizeT(capacity), buf |-> mem, head |-> 0, tail |-> 0])

ringbuf_new(capacity, mem, enough) ==
    IF ~enough THEN Null
    ELSE ringbuf_init([size |-> SizeT(capacity + 1), buf |-> mem,
                       head |-> 0, tail |-> 0])

\* Faulty variant of ringbuf_free: the caller's handle is left pointing to
\* the released buffer.
ringbuf_free_dangling(handle) == handle

ringbuf_free(handle) == Null

\* ------------------------------------------------------------------------
\* ringbuf_findchr (of the interface ringbuf.h): the search for a byte
\* among the used bytes, by logical offset from tail.

\* The int argument is converted to an unsigned char.
UChar(c) == c % 256

\* memchr: the first of the n cells of a from at that holds c, or null.
memchr(a, at, c, n) ==
    LET hits == {i \in at .. at + n - 1 : a[i] = UChar(c)}
    IN IF hits = {} THEN Null
       ELSE Ptr(CHOOSE i \in hits : \A j \in hits : i <= j)

\* Faulty variant of the search: every cell of the array is searched, the
\* unused ones after head included.
ringbuf_findchr_stale(b, c, offset) ==
    LET bytes_used == ringbuf_bytes_used(b)
        hits == {i \in offset .. ringbuf_buffer_size(b) - 1 :
                    b.buf[(b.tail + i) % ringbuf_buffer_size(b)] = UChar(c)}
    IN IF offset >= bytes_used \/ hits = {} THEN bytes_used
       ELSE CHOOSE i \in hits : \A j \in hits : i <= j

RECURSIVE ringbuf_findchr(_, _, _)
ringbuf_findchr(b, c, offset) ==
    LET bufend == ringbuf_end(b)
        bytes_used == ringbuf_bytes_used(b)
    IN IF offset >= bytes_used
       THEN bytes_used
       ELSE LET start == (b.tail + offset) % ringbuf_buffer_size(b)
                n == MIN(bufend - start, bytes_used - offset)
                found == memchr(b.buf, start, c, n)
            IN IF found # Null
               THEN offset + (found.val - start)
               ELSE ringbuf_findchr(b, c, offset + n)

\* ------------------------------------------------------------------------
\* The abstract bounded FIFO queue with drop-oldest overflow.

QPush(qq, data, cap) ==
    LET all == qq \o data
    IN IF Len(all) > cap THEN SubSeq(all, Len(all) - cap + 1, Len(all)) ELSE all

QFront(qq, n) == SubSeq(qq, 1, n)

QPop(qq, n) == SubSeq(qq, n + 1, Len(qq))

\* ------------------------------------------------------------------------
\* The caller's view of a call: the operation, its arguments, the buffers
\* before it (pre, qpre) and everything it returned or delivered; prim is
\* what read(2) or write(2) returned to it.

\* The destination area a caller hands to ringbuf_memcpy_from.
FreshMem == [i \in 1 .. MaxCount |-> Poison]

NoCall ==
    [op |-> "none", r |-> 0, peer |-> 0, count |-> 0, data |-> <<>>,
     ret |-> Null, overflow |-> FALSE, calls |-> 0, req |-> 0, prim |-> 0,
     segs |-> 0,
     inb |-> TRUE, out |-> <<>>, mem |-> <<>>, qout |-> <<>>,
     pre |-> <<>>, qpre |-> <<>>]

Call(op, r, count) ==
    [NoCall EXCEPT !.op = op, !.r = r, !.count = count, !.pre = rb, !.qpre = q]

QCap(r) == rb[r].size - 1

\* ------------------------------------------------------------------------
\* The state after construction: two buffers, reset, the backing arrays
\* holding whatever the memory held.

Init ==
    /\ rb \in [RB -> UNION {[size : {SizeOf(r)}, buf : [0 .. SizeOf(r) - 1 -> Byte],
                              head : {0}, tail : {0}] : r \in RB}]
    /\ \A r \in RB : rb[r].size = SizeOf(r)
    /\ q = [r \in RB |-> <<>>]
    /\ last = NoCall
    /\ aborted = FALSE

\* The program is between two calls.
Idle == ~aborted /\ last.op = "none"

\* ------------------------------------------------------------------------
\* One action per operation.

Reset(r) ==
    /\ Idle
    /\ rb' = [rb EXCEPT ![r] = ringbuf_init(rb[r])]
    /\ q' = [q EXCEPT ![r] = <<>>]
    /\ last' = Call("reset", r, 0)
    /\ UNCHANGED aborted

MemcpyInto(r, count, p) ==
    /\ Idle
    /\ LET src == fill_buffer(count, p)
           res == ringbuf_memcpy_into(rb[r], src, count)
       IN /\ rb' = [rb EXCEPT ![r] = res.rb]
          /\ q' = [q EXCEPT ![r] = QPush(q[r], src, QCap(r))]
          /\ last' = [Call("memcpy_into", r, count) EXCEPT
                         !.data = src, !.ret = res.ret, !.overflow = res.overflow,
                         !.segs = res.segs, !.inb = res.inb]
          /\ aborted' = ~res.ok

Memset(r, c, len) ==
    /\ Idle
    /\ LET res == ringbuf_memset(rb[r], c, len)
           fill == [i \in 1 .. MIN(len, rb[r].size) |-> c]
       IN /\ rb' = [rb EXCEPT ![r] = res.rb]
          /\ q' = [q EXCEPT ![r] = QPush(q[r], fill, QCap(r))]
          /\ last' = [Call("memset", r, len) EXCEPT
                         !.data = fill, !.ret = res.ret, !.overflow = res.overflow,
                         !.segs = res.segs, !.inb = res.inb]
          /\ aborted' = ~res.ok

Read(r, count, p) ==
    /\ Idle
    /\ \E n \in -1 .. read_request(rb[r], count) :
          LET data == fill_buffer(MaxSize, p)
              res == ringbuf_read(rb[r], count, n, data)
              got == IF n > 0 THEN SubSeq(data, 1, n) ELSE <<>>
          IN /\ rb' = [rb EXCEPT ![r] = res.rb]
             /\ q' = [q EXCEPT ![r] = QPush(q[r], got, QCap(r))]
             /\ last' = [Call("read", r, count) EXCEPT
                            !.data = got, !.ret = res.ret, !.overflow = res.overflow,
                            !.calls = res.calls, !.req = res.req, !.prim = n]
             /\ aborted' = ~res.ok

MemcpyFrom(r, count) ==
    /\ Idle
    /\ LET res == ringbuf_memcpy_from(FreshMem, rb[r], count)
           taken == IF count > Len(q[r]) THEN 0 ELSE count
       IN /\ rb' = [rb EXCEPT ![r] = res.rb]
          /\ q' = [q EXCEPT ![r] = QPop(q[r], taken)]
          /\ last' = [Call("memcpy_from", r, count) EXCEPT
                         !.ret = res.ret, !.segs = res.segs, !.inb = res.inb,
                         !.mem = res.mem,
                         !.out = IF res.ret = Null THEN <<>>
                                 ELSE SubSeq(res.mem, 1, count),
                         !.qout = QFront(q[r], taken)]
          /\ aborted' = ~res.ok

\* The results write(2) can give: none when the call is refused before it.
write_results(b, count) ==
    IF write_refuses(b, count) THEN {0} ELSE -1 .. write_request(b, count)

Write(r, count) ==
    /\ Idle
    /\ \E n \in write_results(rb[r], count) :
          LET res == ringbuf_write(rb[r], count, n)
              taken == IF count > Len(q[r]) \/ n <= 0 THEN 0 ELSE n
          IN /\ rb' = [rb EXCEPT ![r] = res.rb]
             /\ q' = [q EXCEPT ![r] = QPop(q[r], taken)]
             /\ last' = [Call("write", r, count) EXCEPT
                            !.ret = res.ret, !.calls = res.calls, !.req = res.req,
                            !.prim = n,
                            !.out = res.out, !.qout = QFront(q[r], taken)]
             /\ aborted' = ~res.ok

\* ringbuf_copy(dst = d, src = s, count).
Copy(d, s, count) ==
    /\ Idle
    /\ d # s
    /\ LET res == ringbuf_copy(rb[d], rb[s], count)
           taken == IF count > Len(q[s]) THEN 0 ELSE count
           moved == QFront(q[s], taken)
       IN /\ rb' = [rb EXCEPT ![d] = res.dst, ![s] = res.src]
          /\ q' = [q EXCEPT ![s] = QPop(q[s], taken),
                            ![d] = QPush(q[d], moved, QCap(d))]
          /\ last' = [Call("copy", s, count) EXCEPT
                         !.peer = d, !.ret = res.ret, !.overflow = res.overflow,
                         !.segs = res.segs, !.inb = res.inb,
                         !.out = res.out, !.qout = moved]
          /\ aborted' = ~res.ok

\* The caller has looked at what the call returned and goes on to its next
\* call.
Continue ==
    /\ ~aborted
    /\ last.op # "none"
    /\ last' = NoCall
    /\ UNCHANGED <<rb, q, aborted>>

Next ==
    \/ \E r \in RB : Reset(r)
    \/ \E r \in RB, count \in Counts, p \in Patterns : MemcpyInto(r, count, p)
    \/ \E r \in RB, c \in Byte, len \in Counts : Memset(r, c, len)
    \/ \E r \in RB, count \in Counts, p \in Patterns : Read(r, count, p)
    \/ \E r \in RB, count \in Counts : MemcpyFrom(r, count)
    \/ \E r \in RB, count \in Counts : Write(r, count)
    \/ \E d \in RB, s \in RB, count \in Counts : Copy(d, s, count)
    \/ Continue

Spec == Init /\ [][Next]_vars

\* ------------------------------------------------------------------------
\* The round trip on a freshly reset buffer: ringbuf_memcpy_into of a byte
\* sequence A that fits, ringbuf_memcpy_from of as many bytes, reset again.

\* Every byte sequence of at most n bytes.
SeqsUpTo(n) == UNION {[1 .. k -> Byte] : k \in 0 .. n}

RTInto(r, A) ==
    /\ Idle
    /\ LET res == ringbuf_memcpy_into(rb[r], A, Len(A))
       IN /\ rb' = [rb EXCEPT ![r] = res.rb]
          /\ q' = [q EXCEPT ![r] = QPush(q[r], A, QCap(r))]
          /\ last' = [Call("memcpy_into", r, Len(A)) EXCEPT
                         !.data = A, !.ret = res.ret, !.overflow = res.overflow,
                         !.segs = res.segs, !.inb = res.inb]
          /\ aborted' = ~res.ok

RTFrom ==
    /\ ~aborted
    /\ last.op = "memcpy_into"
    /\ LET r == last.r
           count == last.count
           res == ringbuf_memcpy_from(FreshMem, rb[r], count)
           taken == IF count > Len(q[r]) THEN 0 ELSE count
       IN /\ rb' = [rb EXCEPT ![r] = res.rb]
          /\ q' = [q EXCEPT ![r] = QPop(q[r], taken)]
          /\ last' = [Call("memcpy_from", r, count) EXCEPT
                         !.data = last.data,
                         !.ret = res.ret, !.segs = res.segs, !.inb = res.inb,
                         !.mem = res.mem,
                         !.out = IF res.ret = Null THEN <<>>
                                 ELSE SubSeq(res.mem, 1, count),
                         !.qout = QFront(q[r], taken)]
          /\ aborted' = ~res.ok

RTReset ==
    /\ ~aborted
    /\ last.op = "memcpy_from"
    /\ rb' = [rb EXCEPT ![last.r] = ringbuf_init(rb[last.r])]
    /\ q' = [q EXCEPT ![last.r] = <<>>]
    /\ last' = NoCall
    /\ UNCHANGED aborted

NextRT ==
    \/ \E r \in RB : \E A \in SeqsUpTo(ringbuf_capacity(rb[r])) : RTInto(r, A)
    \/ RTFrom
    \/ RTReset

SpecRT == Init /\ [][NextRT]_vars

\* ------------------------------------------------------------------------
\* Eviction from empty: on a reset buffer (cursors at the start of the array),
\* one ringbuf_memcpy_into of any byte sequence A of at most MaxCount bytes,
\* then reset again.

EvInto(r, A) ==
    /\ Idle
    /\ rb[r].head = 0 /\ rb[r].tail = 0
    /\ LET res == ringbuf_memcpy_into(rb[r], A, Len(A))
       IN /\ rb' = [rb EXCEPT ![r] = res.rb]
          /\ q' = [q EXCEPT ![r] = QPush(q[r], A, QCap(r))]
          /\ last' = [Call("memcpy_into", r, Len(A)) EXCEPT
                         !.data = A, !.ret = res.ret, !.overflow = res.overflow,
                         !.segs = res.segs, !.inb = res.inb]
          /\ aborted' = ~res.ok

EvReset ==
    /\ ~aborted
    /\ last.op = "memcpy_into"
    /\ rb' = [rb EXCEPT ![last.r] = ringbuf_init(rb[last.r])]
    /\ q' = [q EXCEPT ![last.r] = <<>>]
    /\ last' = NoCall
    /\ UNCHANGED aborted

NextEv ==
    \/ \E r \in RB : \E A \in SeqsUpTo(MaxCount) : EvInto(r, A)
    \/ EvReset

SpecEv == Init /\ [][NextEv]_vars

\* ------------------------------------------------------------------------
\* A program that fills and drains the buffers with ringbuf_memcpy_into and
\* ringbuf_memcpy_from and calls ringbuf_copy with every pair of buffers,
\* one buffer passed as both dst and src included.

CopySelf(r, count, junk) ==
    /\ Idle
    /\ LET res == ringbuf_copy_self(rb[r], count, junk)
           taken == IF count > Len(q[r]) THEN 0 ELSE count
       IN /\ rb' = [rb EXCEPT ![r] = res.rb]
          /\ q' = [q EXCEPT ![r] = QPush(QPop(q[r], taken), QFront(q[r], taken),
                                         QCap(r))]
          /\ last' = [Call("copy", r, count) EXCEPT
                         !.peer = r, !.ret = res.ret, !.overflow = res.overflow,
                         !.segs = res.segs, !.inb = res.inb, !.out = res.out,
                         !.qout = QFront(q[r], taken)]
          /\ aborted' = ~res.ok

NextAlias ==
    \/ \E r \in RB, count \in Counts, p \in Patterns : MemcpyInto(r, count, p)
    \/ \E r \in RB, count \in Counts : MemcpyFrom(r, count)
    \/ \E d \in RB, s \in RB, count \in Counts : Copy(d, s, count)
    \/ Continue
    \/ \E r \in RB, count \in Counts :
          \E junk \in [0 .. rb[r].size - 1 -> Byte] : CopySelf(r, count, junk)

SpecAlias == Init /\ [][NextAlias]_vars

\* ------------------------------------------------------------------------
\* Copies from a larger buffer into a smaller one, as in the test that
\* forces three memcpy's: buffer 1 (src) has MaxSize + 2 cells, buffer 2
\* (dst) has 2 or MaxSize cells.  Both arrays are filled with 1 and the
\* buffers reset; src is filled with a test pattern and drained, and bytes
\* are copied from src to dst.

SegBuffer(size) ==
    [size |-> size, buf |-> [i \in 0 .. size - 1 |-> 1], head |-> 0, tail |-> 0]

InitSeg ==
    /\ rb \in {[r \in RB |-> SegBuffer(IF r = 1 THEN MaxSize + 2 ELSE d)] :
                 d \in {2, MaxSize}}
    /\ q = [r \in RB |-> <<>>]
    /\ last = NoCall
    /\ aborted = FALSE

NextSeg ==
    \/ \E count \in Counts : MemcpyInto(1, count, <<0, 1>>)
    \/ \E count \in Counts : MemcpyFrom(1, count)
    \/ \E count \in Counts : Copy(2, 1, count)
    \/ Continue

SpecSeg == InitSeg /\ [][NextSeg]_vars

\* ------------------------------------------------------------------------
\* Searches of a buffer that producers and consumers have moved round its
\* array, as the tests of ringbuf_findchr set it up.

FindChr(r, c, offset) ==
    /\ Idle
    /\ last' = [Call("findchr", r, offset) EXCEPT
                   !.data = <<c>>,
                   !.ret = SSize(ringbuf_findchr(rb[r], c, offset))]
    /\ UNCHANGED <<rb, q, aborted>>

NextFind ==
    \/ \E r \in RB : Reset(r)
    \/ \E r \in RB, count \in Counts, p \in Patterns : MemcpyInto(r, count, p)
    \/ \E r \in RB, count \in Counts : MemcpyFrom(r, count)
    \/ \E r \in RB, c \in Byte, offset \in Counts : FindChr(r, c, offset)
    \/ Continue

SpecFind == Init /\ [][NextFind]_vars

\* ------------------------------------------------------------------------
\* The life of a buffer: the handles start null, ringbuf_new gives a handle
\* its buffer, of a capacity from 1 (the array has at least two cells) to
\* MaxCapacity, the buffer is produced into and consumed from, and
\* ringbuf_free ends it.  The caller tests a handle before using it.

MaxCapacity == MaxSize - 1

InitLife ==
    /\ rb = [r \in RB |-> Null]
    /\ q = [r \in RB |-> <<>>]
    /\ last = NoCall
    /\ aborted = FALSE

New(r, capacity, mem, enough) ==
    /\ Idle
    /\ rb[r] = Null
    /\ rb' = [rb EXCEPT ![r] = ringbuf_new(capacity, mem, enough)]
    /\ q' = [q EXCEPT ![r] = <<>>]
    /\ last' = Call("new", r, capacity)
    /\ UNCHANGED aborted

Free(r) ==
    /\ Idle
    /\ rb[r] # Null
    /\ rb' = [rb EXCEPT ![r] = ringbuf_free(rb[r])]
    /\ q' = [q EXCEPT ![r] = <<>>]
    /\ last' = Call("free", r, 0)
    /\ UNCHANGED aborted

NextLife ==
    \/ \E r \in RB, capacity \in 1 .. MaxCapacity, enough \in BOOLEAN :
          \E mem \in [0 .. capacity -> Byte] : New(r, capacity, mem, enough)
    \/ \E r \in RB : Free(r)
    \/ \E r \in RB, count \in Counts : rb[r] # Null /\ MemcpyInto(r, count, <<0, 1>>)
    \/ \E r \in RB, count \in Counts : rb[r] # Null /\ MemcpyFrom(r, count)
    \/ Continue

SpecLife == InitLife /\ [][NextLife]_vars

\* ------------------------------------------------------------------------
\* Across the wrap, as the tests of memcpy_into / memcpy_from across the end
\* of the array do it: a reset buffer is filled to its capacity with any
\* bytes A, all but j of them are read out, and j + 1 more bytes B are
\* written, with 2j + 1 <= capacity.  Buffer 1 has MaxSize + 2 cells here,
\* buffer 2 MaxSize.  last.data collects the bytes written so far and
\* last.out the bytes read out so far.

InitWrap ==
    /\ rb = [r \in RB |-> SegBuffer(IF r = 1 THEN MaxSize + 2 ELSE MaxSize)]
    /\ q = [r \in RB |-> <<>>]
    /\ last = NoCall
    /\ aborted = FALSE

WrapFill(r, A) ==
    /\ Idle
    /\ rb[r].head = 0 /\ rb[r].tail = 0
    /\ Len(A) = ringbuf_capacity(rb[r])
    /\ LET res == ringbuf_memcpy_into(rb[r], A, Len(A))
       IN /\ rb' = [rb EXCEPT ![r] = res.rb]
          /\ q' = [q EXCEPT ![r] = QPush(q[r], A, QCap(r))]
          /\ last' = [Call("memcpy_into", r, Len(A)) EXCEPT
                         !.data = A, !.ret = res.ret, !.overflow = res.overflow,
                         !.segs = res.segs, !.inb = res.inb]
          /\ aborted' = ~res.ok

WrapDrain(j) ==
    /\ ~aborted
    /\ last.op = "memcpy_into" /\ last.out = <<>>
    /\ 2 * j + 1 <= ringbuf_capacity(rb[last.r])
    /\ LET r == last.r
           count == ringbuf_capacity(rb[r]) - j
           res == ringbuf_memcpy_from(FreshMem, rb[r], count)
           taken == IF count > Len(q[r]) THEN 0 ELSE count
       IN /\ rb' = [rb EXCEPT ![r] = res.rb]
          /\ q' = [q EXCEPT ![r] = QPop(q[r], taken)]
          /\ last' = [Call("memcpy_from", r, count) EXCEPT
                         !.data = last.data,
                         !.ret = res.ret, !.segs = res.segs, !.inb = res.inb,
                         !.mem = res.mem,
                         !.out = IF res.ret = Null THEN <<>>
                                 ELSE SubSeq(res.mem, 1, count),
                         !.qout = QFront(q[r], taken)]
          /\ aborted' = ~res.ok

WrapRefill(B) ==
    /\ ~aborted
    /\ last.op = "memcpy_from"
    /\ Len(B) = ringbuf_bytes_used(rb[last.r]) + 1
    /\ LET r == last.r
           res == ringbuf_memcpy_into(rb[r], B, Len(B))
       IN /\ rb' = [rb EXCEPT ![r] = res.rb]
          /\ q' = [q EXCEPT ![r] = QPush(q[r], B, QCap(r))]
          /\ last' = [Call("memcpy_into", r, Len(B)) EXCEPT
                         !.data = last.data \o B, !.out = last.out,
                         !.ret = res.ret, !.overflow = res.overflow,
                         !.segs = res.segs, !.inb = res.inb]
          /\ aborted' = ~res.ok

WrapReset ==
    /\ ~aborted
    /\ last.op = "memcpy_into" /\ last.out # <<>>
    /\ rb' = [rb EXCEPT ![last.r] = ringbuf_init(rb[last.r])]
    /\ q' = [q EXCEPT ![last.r] = <<>>]
    /\ last' = NoCall
    /\ UNCHANGED aborted

NextWrap ==
    \/ \E r \in RB : \E A \in [1 .. ringbuf_capacity(rb[r]) -> Byte] : WrapFill(r, A)
    \/ \E j \in 0 .. MaxSize : WrapDrain(j)
    \/ \E B \in SeqsUpTo(MaxSize) : WrapRefill(B)
    \/ WrapReset

SpecWrap == InitWrap /\ [][NextWrap]_vars

\* ------------------------------------------------------------------------
\* To just before the end of the array (Test 36 with ringbuf_read and
\* ringbuf_write on files that serve every byte asked for, and the same test
\* with ringbuf_memcpy_into and ringbuf_memcpy_from): on a reset buffer, m
\* bytes A are put in and taken out again, then capacity() - m bytes B are
\* put in, for every m with S > m + 1.  fd tells which pair of calls is
\* used.  last.data collects the bytes put in so far, last.out the bytes
\* taken out.

Put(b, A, fd) ==
    IF fd
    THEN LET n == read_request(b, Len(A))
             res == ringbuf_read(b, Len(A), n, A)
         IN [rb |-> res.rb, ret |-> res.ret, overflow |-> res.overflow,
             ok |-> res.ok, data |-> SubSeq(A, 1, n)]
    ELSE LET res == ringbuf_memcpy_into(b, A, Len(A))
         IN [rb |-> res.rb, ret |-> res.ret, overflow |-> res.overflow,
             ok |-> res.ok, data |-> A]

Take(b, count, fd) ==
    IF fd
    THEN LET res == ringbuf_write(b, count, write_request(b, count))
         IN [rb |-> res.rb, ret |-> res.ret, ok |-> res.ok, out |-> res.out]
    ELSE LET res == ringbuf_memcpy_from(FreshMem, b, count)
         IN [rb |-> res.rb, ret |-> res.ret, ok |-> res.ok,
             out |-> IF res.ret = Null THEN <<>> ELSE SubSeq(res.mem, 1, count)]

PutFirst(r, A, fd) ==
    /\ Idle
    /\ rb[r].head = 0 /\ rb[r].tail = 0
    /\ rb[r].size > Len(A) + 1
    /\ LET res == Put(rb[r], A, fd)
       IN /\ rb' = [rb EXCEPT ![r] = res.rb]
          /\ q' = [q EXCEPT ![r] = QPush(q[r], res.data, QCap(r))]
          /\ last' = [Call(IF fd THEN "read" ELSE "memcpy_into", r, Len(A)) EXCEPT
                         !.data = res.data, !.ret = res.ret,
                         !.overflow = res.overflow]
          /\ aborted' = ~res.ok

TakeBack ==
    /\ ~aborted
    /\ last.op \in {"read", "memcpy_into"}
    /\ Len(last.data) < ringbuf_capacity(rb[last.r])
    /\ LET r == last.r
           res == Take(rb[r], last.count, last.op = "read")
       IN /\ rb' = [rb EXCEPT ![r] = res.rb]
          /\ q' = [q EXCEPT ![r] = QPop(q[r], Len(res.out))]
          /\ last' = [Call(IF last.op = "read" THEN "write" ELSE "memcpy_from",
                           r, last.count) EXCEPT
                         !.data = last.data, !.ret = res.ret, !.out = res.out]
          /\ aborted' = ~res.ok

PutRest(B) ==
    /\ ~aborted
    /\ last.op \in {"write", "memcpy_from"}
    /\ Len(B) = ringbuf_capacity(rb[last.r]) - last.count
    /\ LET r == last.r
           res == Put(rb[r], B, last.op = "write")
       IN /\ rb' = [rb EXCEPT ![r] = res.rb]
          /\ q' = [q EXCEPT ![r] = QPush(q[r], res.data, QCap(r))]
          /\ last' = [Call(IF last.op = "write" THEN "read" ELSE "memcpy_into",
                           r, Len(B)) EXCEPT
                         !.data = last.data \o res.data, !.out = last.out,
                         !.ret = res.ret, !.overflow = res.overflow]
          /\ aborted' = ~res.ok

PutReset ==
    /\ ~aborted
    /\ last.op \in {"read", "memcpy_into"}
    /\ Len(last.data) = ringbuf_capacity(rb[last.r])
    /\ rb' = [rb EXCEPT ![last.r] = ringbuf_init(rb[last.r])]
    /\ q' = [q EXCEPT ![last.r] = <<>>]
    /\ last' = NoCall
    /\ UNCHANGED aborted

NextPut ==
    \/ \E r \in RB, fd \in BOOLEAN : \E A \in SeqsUpTo(MaxSize) : PutFirst(r, A, fd)
    \/ TakeBack
    \/ \E B \in SeqsUpTo(MaxSize + 1) : PutRest(B)
    \/ PutReset

SpecPut == InitWrap /\ [][NextPut]_vars

\* The bytes stored from tail up to head, following the wrap.
Live(b) ==
    [i \in 1 .. ringbuf_bytes_used(b) |-> b.buf[(b.tail + i - 1) % b.size]]

\* ------------------------------------------------------------------------
\* The caller's drain loop: while the buffer is not empty, ringbuf_write of
\* bytes_used() bytes to a descriptor that takes every byte it is given.
\* The loop starts in any state producers and consumers have led to.
\* During the loop last.data holds the live bytes the loop started with,
\* last.out the bytes handed to write(2) so far and last.calls the calls
\* made so far.  The loop goes on while the buffer holds bytes, hence the
\* fairness of its steps.

DrainCall(r, data, out, calls) ==
    LET count == ringbuf_bytes_used(rb[r])
        n == write_request(rb[r], count)
        res == ringbuf_write(rb[r], count, n)
    IN /\ rb' = [rb EXCEPT ![r] = res.rb]
       /\ q' = [q EXCEPT ![r] = QPop(q[r], n)]
       /\ last' = [Call("write", r, count) EXCEPT
                      !.data = data, !.out = out \o res.out,
                      !.ret = res.ret, !.calls = calls + res.calls,
                      !.req = res.req, !.prim = n,
                      !.qout = QFront(q[r], n)]
       /\ aborted' = ~res.ok

DrainStart(r) ==
    /\ Idle
    /\ ~ringbuf_is_empty(rb[r])
    /\ DrainCall(r, Live(rb[r]), <<>>, 0)

DrainMore ==
    /\ ~aborted
    /\ last.op = "write"
    /\ ~ringbuf_is_empty(rb[last.r])
    /\ DrainCall(last.r, last.data, last.out, last.calls)

DrainDone ==
    /\ ~aborted
    /\ last.op = "write"
    /\ ringbuf_is_empty(rb[last.r])
    /\ last' = NoCall
    /\ UNCHANGED <<rb, q, aborted>>

DrainIdle ==
    /\ last.op \in {"memcpy_into", "memcpy_from"}
    /\ Continue

NextDrain ==
    \/ \E r \in RB, count \in Counts : MemcpyInto(r, count, <<0, 1>>)
    \/ \E r \in RB, count \in Counts : MemcpyFrom(r, count)
    \/ DrainIdle
    \/ \E r \in RB : DrainStart(r)
    \/ DrainMore
    \/ DrainDone

SpecDrain ==
    Init /\ [][NextDrain]_vars /\ WF_vars(DrainMore) /\ WF_vars(DrainDone)

\* ------------------------------------------------------------------------
\* Two runs of the same program side by side.  Buffers 1 and 2 are the
\* buffers of the first run; Twin(1) and Twin(2) are those of the second,
\* of the same sizes, whose arrays start with any other contents.  Each
\* step makes the same call, with the same arguments, source bytes and
\* result of read(2) / write(2), in both runs.  last.ret and last.out are
\* what the first run's call returned and delivered, last.mem is the pair
\* of what the second run's call returned and delivered.

Twin(r) == r + Cardinality(RB)

Ops == {"memcpy_into", "read", "memcpy_from", "write", "copy", "findchr"}

\* One call on buffer b (ringbuf_copy: from b into peer), and what the
\* caller sees of it.
Observe(op, b, peer, count, n, c, src) ==
    CASE op = "memcpy_into" ->
           LET res == ringbuf_memcpy_into(b, src, count)
           IN [rb |-> res.rb, peer |-> peer, ret |-> res.ret, out |-> <<>>,
               ok |-> res.ok]
      [] op = "read" ->
           LET res == ringbuf_read(b, count, n, src)
           IN [rb |-> res.rb, peer |-> peer, ret |-> res.ret, out |-> <<>>,
               ok |-> res.ok]
      [] op = "memcpy_from" ->
           LET res == ringbuf_memcpy_from(FreshMem, b, count)
           IN [rb |-> res.rb, peer |-> peer, ret |-> res.ret,
               out |-> IF res.ret = Null THEN <<>> ELSE SubSeq(res.mem, 1, count),
               ok |-> res.ok]
      [] op = "write" ->
           LET res == ringbuf_write(b, count, n)
           IN [rb |-> res.rb, peer |-> peer, ret |-> res.ret, out |-> res.out,
               ok |-> res.ok]
      [] op = "copy" ->
           LET res == ringbuf_copy(peer, b, count)
           IN [rb |-> res.src, peer |-> res.dst, ret |-> res.ret, out |-> res.out,
               ok |-> res.ok]
      [] op = "findchr" ->
           [rb |-> b, peer |-> peer, ret |-> SSize(ringbuf_findchr(b, c, count)),
            out |-> <<>>, ok |-> TRUE]

\* The results the primitive of the call can give.
Results(op, b, count) ==
    CASE op = "read" -> -1 .. read_request(b, count)
      [] op = "write" -> write_results(b, count)
      [] OTHER -> {0}

InitTwin ==
    /\ rb \in [RB \cup {Twin(r) : r \in RB} ->
                 UNION {[size : {SizeOf(r)}, buf : [0 .. SizeOf(r) - 1 -> Byte],
                         head : {0}, tail : {0}] : r \in RB}]
    /\ \A r \in RB :
          /\ rb[r] = SegBuffer(SizeOf(r))
          /\ rb[Twin(r)].size = SizeOf(r)
    /\ q = [r \in RB |-> <<>>]
    /\ last = NoCall
    /\ aborted = FALSE

TwinStep(op, r, count, c) ==
    /\ Idle
    /\ \E n \in Results(op, rb[r], count) :
          LET o == CHOOSE x \in RB : x # r
              src == fill_buffer(MaxCount, <<0, 1>>)
              one == Observe(op, rb[r], rb[o], count, n, c, src)
              two == Observe(op, rb[Twin(r)], rb[Twin(o)], count, n, c, src)
          IN /\ rb' = [rb EXCEPT ![r] = one.rb, ![o] = one.peer,
                                 ![Twin(r)] = two.rb, ![Twin(o)] = two.peer]
             /\ last' = [Call(op, r, count) EXCEPT
                            !.peer = o, !.prim = n,
                            !.data = IF op = "findchr" THEN <<c>> ELSE <<>>,
                            !.ret = one.ret, !.out = one.out,
                            !.mem = <<two.ret, two.out>>]
             /\ aborted' = ~(one.ok /\ two.ok)
    /\ UNCHANGED q

NextTwin ==
    \/ \E op \in Ops \ {"findchr"}, r \in RB, count \in Counts :
          TwinStep(op, r, count, 0)
    \/ \E r \in RB, offset \in Counts, c \in Byte : TwinStep("findchr", r, offset, c)
    \/ Continue

SpecTwin == InitTwin /\ [][NextTwin]_vars

\* ------------------------------------------------------------------------
\* A producer and a consumer on the same buffer without mutual exclusion.
\* The producer is inside ringbuf_memcpy_into, one statement at a time; pc
\* is its position, nread and n its locals.  Between any two of its
\* statements the consumer calls ringbuf_bytes_used (seen is what it got,
\* shead and stail the cursors as they were then) or ringbuf_memcpy_from
\* (ctail is the tail it stored).  The calls of the consumer are taken whole.

RaceIdle ==
    [pc |-> "idle", nread |-> 0, n |-> 0, seen |-> Null, shead |-> 0, stail |-> 0,
     ctail |-> Null] @@ NoCall

InitRace ==
    /\ rb = [r \in RB |-> SegBuffer(SizeOf(r))]
    /\ q = [r \in RB |-> <<>>]
    /\ last = RaceIdle
    /\ aborted = FALSE

\* bufend, overflow and nread are set on entry.
PBegin(r, count) ==
    /\ ~aborted
    /\ last.pc = "idle"
    /\ last' = [RaceIdle EXCEPT
                   !.op = "memcpy_into", !.r = r, !.count = count,
                   !.data = fill_buffer(count, <<0, 1>>),
                   !.overflow = count > ringbuf_bytes_free(rb[r]),
                   !.pc = "test"]
    /\ UNCHANGED <<rb, q, aborted>>

\* while (nread != count)
PTest ==
    /\ ~aborted
    /\ last.pc = "test"
    /\ last' = [last EXCEPT !.pc = IF last.nread = last.count THEN "after" ELSE "copy"]
    /\ UNCHANGED <<rb, q, aborted>>

\* assert(bufend > dst->head); n = MIN(...); memcpy(dst->head, src + nread, n)
PCopy ==
    /\ ~aborted
    /\ last.pc = "copy"
    /\ LET dst == rb[last.r]
           bufend == ringbuf_end(dst)
           n == MIN(bufend - dst.head, last.count - last.nread)
       IN IF ~(bufend > dst.head)
          THEN /\ aborted' = TRUE
               /\ UNCHANGED <<rb, last>>
          ELSE /\ rb' = [rb EXCEPT ![last.r].buf =
                            memcpy_in(dst.buf, dst.head, last.data, last.nread, n)]
               /\ last' = [last EXCEPT !.pc = "advance", !.n = n, !.segs = @ + 1]
               /\ UNCHANGED aborted
    /\ UNCHANGED q

\* dst->head += n; nread += n
PAdvance ==
    /\ ~aborted
    /\ last.pc = "advance"
    /\ rb' = [rb EXCEPT ![last.r].head = @ + last.n]
    /\ last' = [last EXCEPT !.pc = "wrap", !.nread = @ + last.n]
    /\ UNCHANGED <<q, aborted>>

\* if (dst->head == bufend) dst->head = dst->buf
PWrap ==
    /\ ~aborted
    /\ last.pc = "wrap"
    /\ rb' = [rb EXCEPT ![last.r].head = wrap(@, ringbuf_end(rb[last.r]))]
    /\ last' = [last EXCEPT !.pc = "test"]
    /\ UNCHANGED <<q, aborted>>

\* if (overflow) { dst->tail = ringbuf_smash_tail(dst); assert(full) }
PAfter ==
    /\ ~aborted
    /\ last.pc = "after"
    /\ LET f == IF last.overflow THEN fix_overflow(rb[last.r])
                ELSE [rb |-> rb[last.r], ok |-> TRUE]
       IN /\ rb' = [rb EXCEPT ![last.r] = f.rb]
          /\ last' = [last EXCEPT !.pc = "done", !.ret = Ptr(f.rb.head)]
          /\ aborted' = ~f.ok
    /\ UNCHANGED q

PReturn ==
    /\ ~aborted
    /\ last.pc = "done"
    /\ last' = RaceIdle
    /\ UNCHANGED <<rb, q, aborted>>

CUsed ==
    /\ ~aborted
    /\ last.pc \notin {"idle", "done"}
    /\ last' = [last EXCEPT !.seen = SSize(ringbuf_bytes_used(rb[last.r])),
                            !.shead = rb[last.r].head, !.stail = rb[last.r].tail]
    /\ UNCHANGED <<rb, q, aborted>>

CFrom(count) ==
    /\ ~aborted
    /\ last.pc \notin {"idle", "done"}
    /\ LET res == ringbuf_memcpy_from(FreshMem, rb[last.r], count)
       IN /\ res.ret # Null
          /\ rb' = [rb EXCEPT ![last.r] = res.rb]
          /\ last' = [last EXCEPT !.ctail = res.ret]
          /\ aborted' = ~res.ok
    /\ UNCHANGED q

NextRace ==
    \/ \E r \in RB, count \in Counts : PBegin(r, count)
    \/ PTest
    \/ PCopy
    \/ PAdvance
    \/ PWrap
    \/ PAfter
    \/ PReturn
    \/ CUsed
    \/ \E count \in 1 .. MaxSize : CFrom(count)

SpecRace == InitRace /\ [][NextRace]_vars

\* ------------------------------------------------------------------------
\* Properties.

\* The last call was op; b is the buffer it was applied to, before the call.
Did(op) == last.op = op

Before(r) == last.pre[r]

\* C1: in every reachable state, whatever operations led to it (overflowing
\* ones and refused ones included), head and tail of every buffer are
\* offsets in [0, S): neither is ever one-past-the-end.
C1_CursorsInBounds ==
    \A r \in RB :
        /\ rb[r].head \in 0 .. rb[r].size - 1
        /\ rb[r].tail \in 0 .. rb[r].size - 1

\* An overflowing copy of more bytes than the array has cells has just
\* wrapped the head back to the start of the array.
C1_Witness ==
    /\ Did("memcpy_into")
    /\ last.overflow
    /\ last.count > rb[last.r].size
    /\ Before(last.r).head + last.count >= 2 * rb[last.r].size
    /\ rb[last.r].head = 0

\* C2: in every reachable state bytes_used() + bytes_free() = capacity(),
\* where bytes_free() is capacity - (head - tail) when head >= tail and
\* tail - head - 1 when head < tail.
C2_Conservation ==
    \A r \in RB :
        /\ ringbuf_bytes_used(rb[r]) + ringbuf_bytes_free(rb[r])
               = ringbuf_capacity(rb[r])
        /\ ringbuf_bytes_free(rb[r])
               = IF rb[r].head >= rb[r].tail
                 THEN ringbuf_capacity(rb[r]) - (rb[r].head - rb[r].tail)
                 ELSE rb[r].tail - rb[r].head - 1

\* The live region of buffer 1 wraps (tail ahead of head) and holds bytes.
C2_Witness ==
    /\ last.op # "none"
    /\ rb[1].head < rb[1].tail
    /\ ringbuf_bytes_used(rb[1]) > 0
    /\ ringbuf_bytes_free(rb[1]) > 0

\* C3: for each backing size, in every reachable state is_empty() and
\* is_full() are never both true, and both are false exactly when
\* 0 < bytes_used() < capacity().
C3_EmptyFull ==
    \A r \in RB :
        /\ ~(ringbuf_is_empty(rb[r]) /\ ringbuf_is_full(rb[r]))
        /\ (~ringbuf_is_empty(rb[r]) /\ ~ringbuf_is_full(rb[r]))
              <=> (0 < ringbuf_bytes_used(rb[r])
                   /\ ringbuf_bytes_used(rb[r]) < ringbuf_capacity(rb[r]))

\* Buffer 1 is neither empty nor full, with its live region wrapped, while
\* the smaller buffer 2 is full.
C3_Witness ==
    /\ last.op # "none"
    /\ ~ringbuf_is_empty(rb[1]) /\ ~ringbuf_is_full(rb[1])
    /\ rb[1].head < rb[1].tail
    /\ ringbuf_is_full(rb[2])

\* C4: in every reachable state head = tail iff is_empty(), and
\* bytes_free() = 0 iff is_full() iff tail = (head + 1) mod S.
C4_EmptyFullCursors ==
    \A r \in RB :
        /\ (rb[r].head = rb[r].tail) <=> ringbuf_is_empty(rb[r])
        /\ (ringbuf_bytes_free(rb[r]) = 0) <=> ringbuf_is_full(rb[r])
        /\ ringbuf_is_full(rb[r])
              <=> (rb[r].tail = (rb[r].head + 1) % rb[r].size)

\* A buffer is full with its head on the last cell of the array, so that the
\* tail "one ahead" is the start of the array.
C4_Witness ==
    \E r \in RB :
        /\ Did("read") /\ last.r = r /\ last.overflow
        /\ ringbuf_is_full(rb[r])
        /\ rb[r].head = rb[r].size - 1
        /\ rb[r].tail = 0

\* C5: the ring buffer refines the bounded FIFO queue with drop-oldest
\* overflow that is run side by side with it: after every operation the
\* bytes stored from tail up to head are the queue, an operation is refused
\* exactly when the queue holds fewer bytes than asked for, and the bytes a
\* memcpy_from, write or copy delivers are the bytes removed from the front
\* of the queue, in order.
C5_RefinesFifo ==
    /\ \A r \in RB : Live(rb[r]) = q[r]
    /\ (Did("memcpy_from") \/ Did("write") \/ Did("copy"))
          => last.out = last.qout
    /\ (Did("memcpy_from") \/ Did("copy"))
          => ((last.ret = Null) <=> (last.count > Len(last.qpre[last.r])))

\* A copy between the buffers that took bytes lying across the wrap of src
\* and overflowed dst, evicting bytes dst held.
C5_Witness ==
    /\ Did("copy")
    /\ last.ret # Null
    /\ last.overflow
    /\ last.segs >= 2
    /\ Len(last.out) >= 2
    /\ Len(last.qpre[last.peer]) > 0
    /\ Before(last.r).tail + last.count > rb[last.r].size

\* C6: the round trip.  On a freshly reset buffer, for every byte sequence A
\* of at most capacity() bytes, memcpy_into(A) followed by memcpy_from of
\* Len(A) bytes delivers exactly A and leaves the buffer empty, head = tail.
C6_RoundTrip ==
    Did("memcpy_from") =>
        /\ last.ret # Null
        /\ last.out = last.data
        /\ ringbuf_is_empty(rb[last.r])
        /\ rb[last.r].head = rb[last.r].tail

\* A sequence of capacity() bytes, not all equal, has made the round trip
\* through buffer 1.
C6_Witness ==
    /\ Did("memcpy_from")
    /\ last.r = 1
    /\ Len(last.data) = ringbuf_capacity(rb[1])
    /\ last.out = last.data
    /\ \E i \in DOMAIN last.data : last.data[i] # last.data[1]

\* C7: memcpy_from with count > bytes_used() returns the failure sentinel 0
\* and changes nothing: head, tail, bytes_used(), the stored bytes and the
\* caller's destination memory are as before the call.
C7_MemcpyFromUnderflow ==
    (Did("memcpy_from") /\ last.count > ringbuf_bytes_used(Before(last.r))) =>
        /\ last.ret = Null
        /\ rb = last.pre
        /\ last.mem = FreshMem
        /\ ~aborted

\* A memcpy_from of more bytes than a non-empty buffer holds was refused.
C7_Witness ==
    /\ Did("memcpy_from")
    /\ last.count > ringbuf_bytes_used(Before(last.r))
    /\ ringbuf_bytes_used(Before(last.r)) > 0
    /\ last.ret = Null

\* C8: ringbuf_write with count > bytes_used() returns 0 at once, without
\* calling write(2) (no byte reaches the descriptor), and leaves head, tail
\* and bytes_used() unchanged.
C8_WriteUnderflow ==
    (Did("write") /\ last.count > ringbuf_bytes_used(Before(last.r))) =>
        /\ last.ret = SSize(0)
        /\ last.calls = 0
        /\ last.out = <<>>
        /\ rb = last.pre
        /\ ~aborted

\* A write of more bytes than a non-empty buffer holds was refused.
C8_Witness ==
    /\ Did("write")
    /\ last.count > ringbuf_bytes_used(Before(last.r))
    /\ ringbuf_bytes_used(Before(last.r)) > 0
    /\ last.ret = SSize(0)
    /\ last.calls = 0

\* C9: ringbuf_copy(dst, src, count) with count > bytes_used(src) returns 0
\* and leaves head, tail, bytes_used() and the stored bytes of both buffers
\* unchanged, also when count exceeds bytes_free(dst).
C9_CopyUnderflow ==
    (Did("copy") /\ last.count > ringbuf_bytes_used(Before(last.r))) =>
        /\ last.ret = Null
        /\ rb = last.pre
        /\ last.out = <<>>
        /\ ~aborted

\* A copy of more bytes than a non-empty src holds, and more than dst has
\* free, was refused.
C9_Witness ==
    /\ Did("copy")
    /\ last.count > ringbuf_bytes_used(Before(last.r))
    /\ ringbuf_bytes_used(Before(last.r)) > 0
    /\ last.count > ringbuf_bytes_free(Before(last.peer))
    /\ last.ret = Null

\* C10: whenever memcpy_into is called with count > bytes_free(), also with
\* count larger than the backing array, on return the buffer is full and
\* tail = (head + 1) mod S: the assert after the tail smash does not fail.
C10_OverflowLeavesFull ==
    (Did("memcpy_into") /\ last.count > ringbuf_bytes_free(Before(last.r))) =>
        /\ ringbuf_is_full(rb[last.r])
        /\ rb[last.r].tail = (rb[last.r].head + 1) % rb[last.r].size
        /\ rb[last.r].tail = ringbuf_smash_tail(rb[last.r])
        /\ ~aborted

\* A copy of more bytes than the array has cells, into a buffer that held
\* bytes, went several times round the array and left the buffer full.
C10_Witness ==
    /\ Did("memcpy_into")
    /\ last.count > rb[last.r].size
    /\ Before(last.r).head + last.count >= 2 * rb[last.r].size
    /\ ringbuf_bytes_used(Before(last.r)) > 0
    /\ last.segs >= 3
    /\ ringbuf_is_full(rb[last.r])

\* C11: one memcpy_into of capacity() + k bytes, k >= 1, into an empty buffer
\* whose cursors are at the start of the array leaves it full, with
\* head = (k - 1) mod S, tail = (head + 1) mod S, and the bytes from tail on
\* exactly the last capacity() bytes of the sequence written.
C11_OverflowEviction ==
    (Did("memcpy_into")
        /\ Before(last.r).head = 0 /\ Before(last.r).tail = 0
        /\ last.count > ringbuf_capacity(Before(last.r))) =>
        LET b == rb[last.r]
            cap == ringbuf_capacity(b)
            k == last.count - cap
        IN /\ ringbuf_is_full(b)
           /\ b.head = (k - 1) % b.size
           /\ b.tail = (b.head + 1) % b.size
           /\ Live(b) = SubSeq(last.data, last.count - cap + 1, last.count)
           /\ ~aborted

\* A buffer, empty at the start of its array, was given capacity() + k bytes,
\* not all equal, with k - 1 at least the size of the array (the head went
\* more than once round).
C11_Witness ==
    /\ Did("memcpy_into")
    /\ Before(last.r).head = 0 /\ Before(last.r).tail = 0
    /\ last.count - ringbuf_capacity(rb[last.r]) - 1 >= rb[last.r].size
    /\ \E i \in DOMAIN last.data : last.data[i] # last.data[1]
    /\ Live(rb[last.r]) = SubSeq(last.data, last.count, last.count)

\* The last call was a producing one; Dest is the buffer it stored into and
\* Stored the number of bytes it stored there.
Produced == Did("memcpy_into") \/ Did("memset") \/ Did("read") \/ Did("copy")

Dest == IF Did("copy") THEN last.peer ELSE last.r

Stored == IF Did("copy") THEN Len(last.out) ELSE Len(last.data)

\* C12: a producing operation (memcpy_into, memset, read, the dst side of
\* copy) that stores n <= bytes_free() bytes, bytes_free() taken before the
\* call, leaves tail unchanged, moves head to (old head + n) mod S and
\* raises bytes_used() by exactly n; tail changes only when n > bytes_free().
C12_NoOverflowKeepsTail ==
    Produced =>
        LET old == Before(Dest)
            new == rb[Dest]
        IN /\ (Stored <= ringbuf_bytes_free(old)) =>
                 /\ new.tail = old.tail
                 /\ new.head = (old.head + Stored) % old.size
                 /\ ringbuf_bytes_used(new) = ringbuf_bytes_used(old) + Stored
           /\ (new.tail # old.tail) => Stored > ringbuf_bytes_free(old)
           /\ ~aborted

\* A copy stored bytes up to the last cell of dst without overflowing it:
\* the head of dst wrapped to the start, its tail stayed inside the array.
C12_Witness ==
    /\ Did("copy")
    /\ Stored > 0
    /\ Stored <= ringbuf_bytes_free(Before(Dest))
    /\ Before(Dest).head + Stored = Before(Dest).size
    /\ Before(Dest).tail > 0
    /\ rb[Dest].head = 0
    /\ rb[Dest].tail = Before(Dest).tail

\* C13: memcpy_into never refuses and never returns the failure sentinel:
\* for every count (0, at most bytes_free(), overflowing) it returns the new
\* head of the buffer; a memcpy_from that is not refused returns the new
\* tail.
C13_ReturnsCursor ==
    /\ Did("memcpy_into") =>
          /\ last.ret # Null
          /\ last.ret = [kind |-> "ptr", val |-> rb[last.r].head]
          /\ Live(rb[last.r]) = QPush(last.qpre[last.r], last.data,
                                      ringbuf_capacity(rb[last.r]))
          /\ ~aborted
    /\ (Did("memcpy_from") /\ last.count <= ringbuf_bytes_used(Before(last.r))) =>
          /\ last.ret # Null
          /\ last.ret = [kind |-> "ptr", val |-> rb[last.r].tail]
          /\ ~aborted

\* An overflowing memcpy_into into a buffer that held bytes returned a head
\* at the start of the array: offset 0, which is not the null pointer.
C13_Witness ==
    /\ Did("memcpy_into")
    /\ last.count > ringbuf_bytes_free(Before(last.r))
    /\ ringbuf_bytes_used(Before(last.r)) > 0
    /\ rb[last.r].head = 0
    /\ last.ret = [kind |-> "ptr", val |-> 0]

\* C14: every call of ringbuf_read makes exactly one call of read(2),
\* whatever the count asked for (0, more than the contiguous run) and
\* whatever read(2) returns (a short count, 0, -1).
C14_ReadOnce ==
    Did("read") =>
        /\ last.calls = 1
        /\ ~aborted

\* A ringbuf_read asked for more than the contiguous run at head got a short
\* count from read(2), which it called once.
C14_Witness ==
    /\ Did("read")
    /\ last.count > Before(last.r).size - Before(last.r).head
    /\ last.ret.val > 0
    /\ last.ret.val < last.req
    /\ last.calls = 1

\* C15 as stated: every call of ringbuf_write makes exactly one call of
\* write(2).  It does not hold: a refused call makes none.
C15_AlwaysOneCall ==
    Did("write") => last.calls = 1

\* C15: a call of ringbuf_write makes exactly one call of write(2) when
\* count <= bytes_used() (count = 0 included, whatever write(2) returns), and
\* none when count > bytes_used().
C15_WriteOnceUnlessRefused ==
    Did("write") =>
        /\ last.calls = IF last.count > ringbuf_bytes_used(Before(last.r))
                        THEN 0 ELSE 1
        /\ ~aborted

\* A ringbuf_write of no bytes on an empty buffer called write(2) once, and
\* write(2) failed.
C15_Witness ==
    /\ Did("write")
    /\ last.count = 0
    /\ ringbuf_is_empty(Before(last.r))
    /\ last.ret = SSize(-1)
    /\ last.calls = 1

\* C16: ringbuf_read never lets read(2) store across the end of the array:
\* the count handed to it is min(count, S - head), at position head, so
\* only cells of [head, S) change; a request larger than the contiguous run
\* returns at most S - head, and when exactly S - head bytes are read the
\* head wraps to the start of the array.
C16_ReadStaysInArray ==
    Did("read") =>
        LET old == Before(last.r)
            new == rb[last.r]
            n == last.ret.val
        IN /\ last.req = MIN(last.count, old.size - old.head)
           /\ old.head + last.req <= old.size
           /\ n <= old.size - old.head
           /\ \A i \in 0 .. old.size - 1 :
                  (i < old.head \/ i >= old.head + n) => new.buf[i] = old.buf[i]
           /\ \A i \in 1 .. n : new.buf[old.head + i - 1] = last.data[i]
           /\ (n = old.size - old.head) => new.head = 0
           /\ ~aborted

\* A ringbuf_read asked for more than the run from a head inside the array
\* to its end got exactly the run: a short count, and the head wrapped.
C16_Witness ==
    /\ Did("read")
    /\ Before(last.r).head > 0
    /\ last.count > Before(last.r).size - Before(last.r).head
    /\ last.ret.val = Before(last.r).size - Before(last.r).head
    /\ last.ret.val >= 2
    /\ rb[last.r].head = 0

\* C17: ringbuf_read and ringbuf_write return exactly the value read(2) or
\* write(2) returned to them; when that value is <= 0 (an error, end of
\* file, nothing written), head, tail, bytes_used() and the stored bytes are
\* as before the call.
C17_ResultPassesThrough ==
    ((Did("read") \/ Did("write")) /\ last.calls = 1) =>
        /\ last.ret = [kind |-> "ssize", val |-> last.prim]
        /\ (last.prim <= 0) =>
              /\ rb = last.pre
              /\ \A r \in RB : Live(rb[r]) = Live(Before(r))
        /\ ~aborted

\* write(2) failed on a buffer whose live bytes lie across the end of the
\* array: -1 came back from ringbuf_write.
C17_Witness ==
    /\ Did("write")
    /\ last.calls = 1
    /\ last.prim = -1
    /\ last.count > 0
    /\ Before(last.r).tail > Before(last.r).head
    /\ last.ret.val = -1

\* C18: when read(2) returns n > 0 to ringbuf_read, head becomes
\* (head + n) mod S; if n > bytes_free(), taken before the call, the tail
\* becomes (new head + 1) mod S and the buffer is full, also when the tail
\* was ahead of the head or on the last cell of the array; otherwise the
\* tail is unchanged and bytes_used() grows by n.
C18_ReadUpdate ==
    (Did("read") /\ last.prim > 0) =>
        LET old == Before(last.r)
            new == rb[last.r]
            n == last.prim
        IN /\ n <= MIN(last.count, old.size - old.head)
           /\ new.head = (old.head + n) % old.size
           /\ IF n > ringbuf_bytes_free(old)
              THEN /\ new.tail = (new.head + 1) % old.size
                   /\ ringbuf_is_full(new)
              ELSE /\ new.tail = old.tail
                   /\ ringbuf_bytes_used(new) = ringbuf_bytes_used(old) + n
           /\ rb[3 - last.r] = Before(3 - last.r)
           /\ ~aborted

\* A ringbuf_read overflowed a buffer whose tail was on the last cell of the
\* array, ahead of the head: the tail went round to the start.
C18_Witness ==
    /\ Did("read")
    /\ last.prim > ringbuf_bytes_free(Before(last.r))
    /\ Before(last.r).tail = Before(last.r).size - 1
    /\ Before(last.r).tail > Before(last.r).head + 1
    /\ rb[last.r].tail # Before(last.r).tail
    /\ ringbuf_is_full(rb[last.r])

\* C19: for count <= bytes_used(), ringbuf_write hands write(2)
\* min(count, S - tail) bytes, those at tail (a request lying across the
\* end of the array gets a short count); when write(2) returns n > 0 the
\* tail becomes (tail + n) mod S, the head is unchanged and bytes_used()
\* has decreased by exactly n.
C19_WriteUpdate ==
    (Did("write") /\ last.count <= ringbuf_bytes_used(Before(last.r))) =>
        LET old == Before(last.r)
            new == rb[last.r]
            n == last.prim
        IN /\ last.req = MIN(last.count, old.size - old.tail)
           /\ n <= last.req
           /\ (n > 0) =>
                 /\ last.out = [i \in 1 .. n |-> old.buf[old.tail + i - 1]]
                 /\ new.tail = (old.tail + n) % old.size
                 /\ new.head = old.head
                 /\ new.buf = old.buf
                 /\ ringbuf_bytes_used(new) = ringbuf_bytes_used(old) - n
                 /\ ringbuf_bytes_free(new) = ringbuf_bytes_free(old) + n
           /\ rb[3 - last.r] = Before(3 - last.r)
           /\ ~aborted

\* A ringbuf_write of bytes lying across the end of the array handed
\* write(2) the bytes up to the end only; they were taken and the tail
\* wrapped.
C19_Witness ==
    /\ Did("write")
    /\ last.count <= ringbuf_bytes_used(Before(last.r))
    /\ last.count > Before(last.r).size - Before(last.r).tail
    /\ last.req = Before(last.r).size - Before(last.r).tail
    /\ last.prim = last.req
    /\ rb[last.r].tail = 0

\* What a ringbuf_copy that is not refused does to the cursors and bytes of
\* src and to the head and bytes of dst, and what it returns.
CopyMoves ==
    LET olds == Before(last.r)
        news == rb[last.r]
        oldd == Before(last.peer)
        newd == rb[last.peer]
        taken == SubSeq(Live(olds), 1, last.count)
    IN /\ news.tail = (olds.tail + last.count) % olds.size
       /\ news.head = olds.head
       /\ ringbuf_bytes_used(news) = ringbuf_bytes_used(olds) - last.count
       /\ Live(news) = SubSeq(Live(olds), last.count + 1, Len(Live(olds)))
       /\ newd.head = (oldd.head + last.count) % oldd.size
       /\ Live(newd) = QPush(Live(oldd), taken, ringbuf_capacity(oldd))
       /\ last.ret = [kind |-> "ptr", val |-> newd.head]
       /\ ~aborted

\* dst is full, its tail one ahead of its head.
DstFull ==
    /\ ringbuf_is_full(rb[last.peer])
    /\ rb[last.peer].tail = (rb[last.peer].head + 1) % rb[last.peer].size

\* C20 as stated: ... dst is full with tail = (head + 1) mod S iff
\* count > bytes_free(dst) before the call, otherwise the tail of dst is
\* unchanged.  It does not hold: a copy of exactly bytes_free(dst) bytes
\* leaves dst full as well.
C20_FullIffOverflow ==
    (Did("copy") /\ last.count <= ringbuf_bytes_used(Before(last.r))) =>
        /\ CopyMoves
        /\ DstFull <=> (last.count > ringbuf_bytes_free(Before(last.peer)))
        /\ (last.count <= ringbuf_bytes_free(Before(last.peer)))
              => rb[last.peer].tail = Before(last.peer).tail

\* C20: ringbuf_copy between two distinct buffers, of capacities that may
\* differ, with count <= bytes_used(src): the tail of src moves to
\* (tail + count) mod S_src and bytes_used(src) decreases by count; the head
\* of dst moves to (head + count) mod S_dst; the live bytes of dst are the
\* last capacity(dst) bytes of its old live bytes followed by the count
\* bytes taken from src, in order; dst is full with tail = (head + 1) mod S
\* iff count >= bytes_free(dst) before the call; the tail of dst is
\* unchanged when count <= bytes_free(dst); the new head of dst is returned.
C20_CopyResult ==
    (Did("copy") /\ last.count <= ringbuf_bytes_used(Before(last.r))) =>
        /\ CopyMoves
        /\ DstFull <=> (last.count >= ringbuf_bytes_free(Before(last.peer)))
        /\ (last.count <= ringbuf_bytes_free(Before(last.peer)))
              => rb[last.peer].tail = Before(last.peer).tail

\* Two bytes lying across the end of buffer 1 were copied into the smaller
\* buffer 2, which held a byte: buffer 2 overflowed and holds the last byte
\* copied.
C20_Witness ==
    /\ Did("copy")
    /\ last.r = 1 /\ last.peer = 2
    /\ last.count = 2
    /\ last.ret # Null
    /\ Before(1).tail + last.count > Before(1).size
    /\ ringbuf_bytes_used(Before(2)) = 1
    /\ last.overflow
    /\ Live(rb[2]) = <<Live(Before(1))[2]>>
    /\ Live(Before(1))[1] # Live(Before(1))[2]

\* A ringbuf_copy that was not refused; src is last.r, dst is last.peer.
CopyTaken == Did("copy") /\ last.count <= ringbuf_bytes_used(Before(last.r))

Moved == IF last.ret = Null THEN 0 ELSE last.count

\* C22: no memcpy runs past a backing array.  In every step of the loops of
\* memcpy_into, memcpy_from and copy the segment length n is at least 1 and
\* cursor + n <= S for every buffer touched, so the asserts bufend > head
\* and bufend > tail never fail and every step makes progress (there are
\* never more segments than bytes to move).
C22_SegmentsInArray ==
    (Did("memcpy_into") \/ Did("memcpy_from") \/ Did("copy")) =>
        /\ last.inb
        /\ last.segs <= Moved
        /\ (Moved > 0) => last.segs >= 1
        /\ ~aborted

\* A copy moved bytes in two segments, up to the end of the array of src and
\* from its start, into a dst whose head wrapped as well.
C22_Witness ==
    /\ Did("copy")
    /\ last.segs = 2
    /\ last.inb
    /\ Before(last.r).tail + last.count > Before(last.r).size
    /\ Before(last.peer).head + last.count >= Before(last.peer).size

\* C23 as stated: every memcpy_into and every memcpy_from, for any count,
\* is done in at most two memcpy segments.  It does not hold: a memcpy_into
\* of a count that takes the head twice past the end of the array needs
\* three or more.
C23_AtMostTwoSegments ==
    (Did("memcpy_into") \/ Did("memcpy_from")) => last.segs <= 2

\* C23: every memcpy_from is done in at most two memcpy segments; a
\* memcpy_into is done in at most two exactly when count <= (S - head) + S,
\* head taken before the call, so for every count up to the size of the
\* array.
C23_TwoSegmentsUnlessTwiceRound ==
    /\ Did("memcpy_from") => last.segs <= 2
    /\ Did("memcpy_into") =>
          /\ (last.segs <= 2)
                <=> (last.count <= 2 * Before(last.r).size - Before(last.r).head)
          /\ (last.count <= Before(last.r).size) => last.segs <= 2

\* A memcpy_into of as many bytes as the array has cells, from a head inside
\* the array, wrapped and was done in two segments.
C23_Witness ==
    /\ Did("memcpy_into")
    /\ last.count = Before(last.r).size
    /\ Before(last.r).head > 0
    /\ last.segs = 2

\* The places where a copy of count bytes has to start a new memcpy: after
\* k bytes, 0 < k < count, when the tail of src or the head of dst has
\* reached the end of its array.
Splits ==
    {k \in 1 .. last.count - 1 :
        \/ (Before(last.r).tail + k) % Before(last.r).size = 0
        \/ (Before(last.peer).head + k) % Before(last.peer).size = 0}

\* C24 as stated: every ringbuf_copy with count <= bytes_used(src), for any
\* capacities of dst and src, is done in at most three memcpy segments.  It
\* does not hold when count is larger than the array of dst.
C24_AtMostThreeSegments ==
    CopyTaken => last.segs <= 3

\* C24: a ringbuf_copy with count <= bytes_used(src) makes one memcpy more
\* than there are places where the tail of src or the head of dst reaches
\* the end of its array before the last byte: at most three when
\* count <= S_dst, whatever the capacities and the cursors.
C24_SegmentsOfCopy ==
    CopyTaken =>
        /\ (last.count > 0) => last.segs = 1 + Cardinality(Splits)
        /\ (last.count <= Before(last.peer).size) => last.segs <= 3
        /\ last.inb
        /\ ~aborted

\* A copy of no more bytes than the array of dst has cells was done in
\* three segments: up to the end of src, up to the end of dst, the rest.
C24_Witness ==
    /\ CopyTaken
    /\ last.count <= Before(last.peer).size
    /\ last.segs = 3
    /\ Before(last.r).tail + last.count > Before(last.r).size
    /\ Before(last.peer).head + last.count > Before(last.peer).size

\* The reference search: the logical offsets from tail, from offset on, of
\* the used bytes of b that equal c.
Matches(b, c, offset) ==
    {i \in offset .. ringbuf_bytes_used(b) - 1 : Live(b)[i + 1] = c}

\* C25: find_byte(rb, value, offset) is the reference search over the used
\* bytes only: it returns the smallest logical offset i from tail with
\* offset <= i < bytes_used() whose byte equals value, and bytes_used() when
\* there is none, in particular when offset >= bytes_used() and when only
\* unused cells hold the value.  The buffer is left as it was.
C25_FindIsReferenceSearch ==
    Did("findchr") =>
        LET b == rb[last.r]
            hits == Matches(b, last.data[1], last.count)
        IN /\ last.ret = SSize(IF hits = {} THEN ringbuf_bytes_used(b)
                               ELSE CHOOSE i \in hits : \A j \in hits : i <= j)
           /\ rb = last.pre
           /\ q = last.qpre

\* A search that starts inside a used region lying across the end of the
\* array and misses, while a cell outside the used region holds the value.
C25_Witness ==
    /\ Did("findchr")
    /\ LET b == rb[last.r]
       IN /\ b.head < b.tail
          /\ last.count < ringbuf_bytes_used(b)
          /\ last.ret = SSize(ringbuf_bytes_used(b))
          /\ \E i \in DOMAIN b.buf : b.buf[i] = last.data[1]

\* The number of bytes a ringbuf_memset of the last call's length writes.
Clamped == MIN(last.count, ringbuf_buffer_size(Before(last.r)))

\* ringbuf_memset returned the clamped length and left the buffer as a
\* ringbuf_memcpy_into of that many bytes of the value does; head moved by
\* that many cells round the array.
MemsetLikeCopyInto ==
    LET b == Before(last.r)
        fill == [i \in 1 .. Clamped |-> last.data[1]]
    IN /\ last.ret = SSize(Clamped)
       /\ rb[last.r] = ringbuf_memcpy_into(b, fill, Clamped).rb
       /\ rb[last.r].head = (b.head + Clamped) % b.size
       /\ \A o \in RB \ {last.r} : rb[o] = Before(o)
       /\ ~aborted

\* The buffer of the last call is full, tail one cell after head.
MemsetFull ==
    /\ ringbuf_is_full(rb[last.r])
    /\ rb[last.r].tail = (rb[last.r].head + 1) % rb[last.r].size

\* C26 as stated: ... the buffer is full with tail = (head + 1) mod S iff
\* min(len, S) > bytes_free() before the call, and otherwise bytes_used()
\* grows by the returned amount with tail unchanged.  It does not hold: a
\* fill of exactly bytes_free() bytes leaves the buffer full as well.
C26_FullIffExceedsFree ==
    Did("memset") =>
        /\ MemsetLikeCopyInto
        /\ MemsetFull <=> (Clamped > ringbuf_bytes_free(Before(last.r)))
        /\ (Clamped <= ringbuf_bytes_free(Before(last.r))) =>
              /\ ringbuf_bytes_used(rb[last.r])
                    = ringbuf_bytes_used(Before(last.r)) + Clamped
              /\ rb[last.r].tail = Before(last.r).tail

\* C26: ringbuf_memset(dst, c, len) returns min(len, S) and
\* leaves dst as ringbuf_memcpy_into of that many bytes equal to c does:
\* head advances by min(len, S) mod S; dst is full with tail = (head + 1)
\* mod S iff min(len, S) >= bytes_free() before the call; when min(len, S)
\* <= bytes_free(), bytes_used() grows by the returned amount and tail is
\* unchanged.
C26_MemsetResult ==
    Did("memset") =>
        /\ MemsetLikeCopyInto
        /\ MemsetFull <=> (Clamped >= ringbuf_bytes_free(Before(last.r)))
        /\ (Clamped <= ringbuf_bytes_free(Before(last.r))) =>
              /\ ringbuf_bytes_used(rb[last.r])
                    = ringbuf_bytes_used(Before(last.r)) + Clamped
              /\ rb[last.r].tail = Before(last.r).tail

\* A fill longer than the array of a buffer that held a byte: the length
\* was clamped, the buffer overflowed and its tail moved.
C26_Witness ==
    /\ Did("memset")
    /\ last.count > Before(last.r).size
    /\ last.ret = SSize(Before(last.r).size)
    /\ ringbuf_bytes_used(Before(last.r)) = 1
    /\ last.overflow
    /\ rb[last.r].tail # Before(last.r).tail
    /\ MemsetFull

\* C27: a reset, from any reachable state (full and overflowed included),
\* sets head and tail to the start of the array, so that the buffer is
\* empty with bytes_free() = capacity(), and leaves the bytes of the backing
\* array, its size and the other buffer as they were.
C27_ResetEmpties ==
    Did("reset") =>
        LET b == rb[last.r]
        IN /\ b.head = 0 /\ b.tail = 0
           /\ ringbuf_is_empty(b) /\ ~ringbuf_is_full(b)
           /\ ringbuf_bytes_used(b) = 0
           /\ ringbuf_bytes_free(b) = ringbuf_capacity(b)
           /\ b.buf = Before(last.r).buf
           /\ b.size = Before(last.r).size
           /\ \A o \in RB \ {last.r} : rb[o] = Before(o)
           /\ q[last.r] = <<>>

\* A reset of a full buffer whose cursors were both away from the start and
\* whose array holds a byte other than 0.
C27_Witness ==
    /\ Did("reset")
    /\ ringbuf_is_full(Before(last.r))
    /\ Before(last.r).head # 0
    /\ Before(last.r).tail # 0
    /\ \E i \in DOMAIN rb[last.r].buf : rb[last.r].buf[i] # 0
    /\ rb[last.r].head = 0 /\ rb[last.r].tail = 0

\* C28: a ringbuf_new(capacity) that finds the memory yields a buffer with
\* buffer_size() = capacity + 1 and capacity() = capacity, head and tail at
\* the start of the array, no byte used, empty and not full.
C28_NewIsEmpty ==
    (Did("new") /\ rb[last.r] # Null) =>
        LET b == rb[last.r]
        IN /\ ringbuf_buffer_size(b) = last.count + 1
           /\ DOMAIN b.buf = 0 .. last.count
           /\ ringbuf_capacity(b) = last.count
           /\ b.head = 0 /\ b.tail = 0
           /\ ringbuf_bytes_used(b) = 0
           /\ ringbuf_bytes_free(b) = last.count
           /\ ringbuf_is_empty(b)
           /\ ~ringbuf_is_full(b)
           /\ \A o \in RB \ {last.r} : rb[o] = Before(o)

\* A buffer of the largest capacity was made while the other handle held a
\* buffer of another capacity with bytes in it.
C28_Witness ==
    /\ Did("new")
    /\ rb[last.r] # Null
    /\ last.count = MaxCapacity
    /\ \E o \in RB \ {last.r} :
          /\ rb[o] # Null
          /\ rb[o].size # rb[last.r].size
          /\ ringbuf_bytes_used(rb[o]) > 0

\* C30: after ringbuf_free(&rb) the caller's handle is the null value and
\* the other handle is as it was; a handle is null or holds a buffer that
\* was made by ringbuf_new and not freed since, so that a test of the handle
\* tells a freed buffer from a usable one, and every operation on a buffer
\* was applied through a handle that was not null.
C30_FreeNullsHandle ==
    /\ Did("free") =>
          /\ Before(last.r) # Null
          /\ rb[last.r] = Null
          /\ \A o \in RB \ {last.r} : rb[o] = Before(o)
    /\ (Did("memcpy_into") \/ Did("memcpy_from")) =>
          /\ Before(last.r) # Null
          /\ rb[last.r] # Null
    /\ \A r \in RB :
          rb[r] # Null =>
              /\ rb[r].size \in 2 .. MaxCapacity + 1
              /\ DOMAIN rb[r].buf = 0 .. rb[r].size - 1
              /\ rb[r].head \in 0 .. rb[r].size - 1
              /\ rb[r].tail \in 0 .. rb[r].size - 1

\* A buffer that held bytes was freed while the other handle held a buffer.
C30_Witness ==
    /\ Did("free")
    /\ rb[last.r] = Null
    /\ ringbuf_bytes_used(Before(last.r)) > 0
    /\ \E o \in RB \ {last.r} : rb[o] # Null

\* C29: in every reachable state the capacity of each buffer is its backing
\* size less one, and the backing size and the extent of the array are those
\* the buffer was made with: no call (overflowing, refused, wrapping, reset,
\* copy between buffers of different sizes) changes them.
C29_CapacityFixed ==
    \A r \in RB :
        /\ ringbuf_capacity(rb[r]) = rb[r].size - 1
        /\ rb[r].size = SizeOf(r)
        /\ DOMAIN rb[r].buf = 0 .. SizeOf(r) - 1
        /\ last.op # "none" =>
              /\ rb[r].size = Before(r).size
              /\ ringbuf_capacity(rb[r]) = ringbuf_capacity(Before(r))

\* A copy from the larger buffer overflowed the smaller one, whose tail
\* moved, and both capacities are as before.
C29_Witness ==
    /\ Did("copy")
    /\ last.overflow
    /\ rb[last.r].size > rb[last.peer].size
    /\ rb[last.peer].tail # Before(last.peer).tail
    /\ ringbuf_capacity(rb[last.r]) = SizeOf(last.r) - 1
    /\ ringbuf_capacity(rb[last.peer]) = SizeOf(last.peer) - 1

\* The third call of the scenario across the wrap was made: the j + 1 bytes
\* after the fill and the drain.
Refilled == Did("memcpy_into") /\ last.out # <<>>

\* C31: from an empty buffer at the start of its array, writing capacity()
\* bytes, reading capacity() - j of them and writing j + 1 more, where j >= 0
\* and 2j + 1 <= capacity(), takes head past the end of the array to offset
\* j, evicts nothing (tail stays where the read left it), and leaves as live
\* bytes the j old bytes not read followed by the j + 1 new ones; the bytes
\* read out were the first capacity() - j written.
C31_WrapCorrect ==
    Refilled =>
        LET b == rb[last.r]
            cap == ringbuf_capacity(b)
            j == last.count - 1
            A == SubSeq(last.data, 1, cap)
            B == SubSeq(last.data, cap + 1, cap + j + 1)
        IN /\ Len(last.data) = cap + j + 1
           /\ last.out = SubSeq(A, 1, cap - j)
           /\ Before(last.r).head = cap
           /\ b.head = j
           /\ b.head < Before(last.r).head
           /\ ~last.overflow
           /\ b.tail = Before(last.r).tail /\ b.tail = cap - j
           /\ ringbuf_bytes_used(b) = 2 * j + 1
           /\ Live(b) = SubSeq(A, cap - j + 1, cap) \o B
           /\ ~aborted

\* The scenario with j = 1 and bytes that are not all equal: head went from
\* the last cell to offset 1, in two memcpy segments.
C31_Witness ==
    /\ Refilled
    /\ last.count = 2
    /\ last.segs = 2
    /\ rb[last.r].head = 1
    /\ Live(rb[last.r]) = <<0, 1, 0>>

\* The calls of the scenario that put bytes in and that take them out.
Putting == Did("read") \/ Did("memcpy_into")

Taking == Did("write") \/ Did("memcpy_from")

\* The second call of the scenario left the buffer empty, the cursors m
\* cells from the start, and gave back the m bytes put in.
EmptyAtM ==
    Taking =>
        LET b == rb[last.r]
        IN /\ last.out = last.data
           /\ Len(last.out) = last.count
           /\ ringbuf_is_empty(b)
           /\ b.head = last.count /\ b.tail = last.count
           /\ ~aborted

\* The third call of the scenario was made: capacity() bytes have been put
\* in, m of them before the bytes were taken out.
PutAll == Putting /\ Len(last.data) = ringbuf_capacity(rb[last.r])

\* C32 as stated: ... writing capacity() - m more bytes then fills the
\* buffer to its capacity, bytes_used() = capacity() and is_full().  It does
\* not hold for m >= 1: the buffer then holds capacity() - m bytes.
C32_FilledToCapacity ==
    /\ EmptyAtM
    /\ PutAll =>
          /\ ringbuf_bytes_used(rb[last.r]) = ringbuf_capacity(rb[last.r])
          /\ ringbuf_is_full(rb[last.r])

\* C32: from an empty buffer at the start of its array, for every m with
\* S > m + 1, putting m bytes in and taking m bytes out leaves the buffer
\* empty with tail = head = m; putting capacity() - m more bytes in then
\* takes head to the last cell of the array without a wrap: bytes_used() =
\* capacity() - m, bytes_free() = m, tail = m, the live bytes are the new
\* ones, and the buffer is full only when m = 0.
C32_FilledToEnd ==
    /\ EmptyAtM
    /\ PutAll =>
          LET b == rb[last.r]
              cap == ringbuf_capacity(b)
              m == cap - last.count
          IN /\ m = Len(last.out)
             /\ b.head = cap /\ b.tail = m
             /\ ringbuf_bytes_used(b) = cap - m
             /\ ringbuf_bytes_free(b) = m
             /\ ringbuf_is_full(b) <=> m = 0
             /\ ~ringbuf_is_empty(b)
             /\ ~last.overflow
             /\ Live(b) = SubSeq(last.data, m + 1, cap)
             /\ ~aborted

\* The scenario with m = 2 through ringbuf_read and ringbuf_write: head is
\* at the last cell, two bytes are free.
C32_Witness ==
    /\ PutAll
    /\ Did("read")
    /\ Len(last.out) = 2
    /\ last.count = 2
    /\ rb[last.r].head = rb[last.r].size - 1
    /\ ringbuf_bytes_free(rb[last.r]) = 2
    /\ ~ringbuf_is_full(rb[last.r])

\* C33: in every reachable state bytes_free() and bytes_used() are within
\* 0 .. capacity(), and the differences the code forms in size_t,
\* capacity - (head - tail) when head >= tail, tail - head - 1 otherwise,
\* and capacity - bytes_free(), are within 0 .. capacity() as integers, so
\* that none of them wraps round.
C33_CountsInRange ==
    \A r \in RB :
        LET b == rb[r]
            cap == ringbuf_capacity(b)
            free == IF b.head >= b.tail
                    THEN cap - (b.head - b.tail)
                    ELSE b.tail - b.head - 1
        IN /\ ringbuf_bytes_free(b) \in 0 .. cap
           /\ ringbuf_bytes_used(b) \in 0 .. cap
           /\ b.head >= b.tail => b.head - b.tail \in 0 .. cap
           /\ free \in 0 .. cap
           /\ cap - free \in 0 .. cap
           /\ ringbuf_bytes_free(b) = free
           /\ ringbuf_bytes_used(b) = cap - free

\* Both ends of the range at once: a buffer is full with its tail ahead of
\* its head (tail - head - 1 is 0), the other is full with its head ahead
\* (head - tail is the capacity).
C33_Witness ==
    /\ last.op # "none"
    /\ \E r \in RB, o \in RB :
          /\ rb[r].head < rb[r].tail
          /\ ringbuf_bytes_free(rb[r]) = 0
          /\ rb[o].head - rb[o].tail = ringbuf_capacity(rb[o])
          /\ ringbuf_bytes_used(rb[o]) = ringbuf_capacity(rb[o])

\* C34: a call with count 0 (ringbuf_memcpy_into, ringbuf_memset,
\* ringbuf_read, ringbuf_memcpy_from, ringbuf_write, ringbuf_copy), from any
\* reachable state, leaves both buffers (cursors and arrays) and so
\* bytes_used() as they were, and no assert fails; ringbuf_memcpy_into
\* returns the head, ringbuf_copy the head of dst and ringbuf_memcpy_from
\* the tail, never the null pointer, also on an empty buffer;
\* ringbuf_memset returns 0; ringbuf_read and ringbuf_write hand a request
\* of 0 bytes to the primitive and return its result.
C34_ZeroCountNoOp ==
    (last.op \in {"memcpy_into", "memset", "read", "memcpy_from", "write", "copy"}
       /\ last.count = 0) =>
        /\ rb = last.pre
        /\ q = last.qpre
        /\ ~aborted
        /\ ~last.overflow
        /\ Did("memcpy_into") => last.ret = Ptr(rb[last.r].head)
        /\ Did("copy") => last.ret = Ptr(rb[last.peer].head)
        /\ Did("memcpy_from") => last.ret = Ptr(rb[last.r].tail)
        /\ Did("memset") => last.ret = SSize(0)
        /\ (Did("read") \/ Did("write")) =>
              /\ last.calls = 1 /\ last.req = 0
              /\ last.ret = SSize(last.prim)
              /\ last.prim \in {-1, 0}
        /\ last.out = <<>>

\* ringbuf_memcpy_from of no bytes on an empty buffer whose cursors are away
\* from the start returned the tail.
C34_Witness ==
    /\ Did("memcpy_from")
    /\ last.count = 0
    /\ ringbuf_is_empty(rb[last.r])
    /\ rb[last.r].tail # 0
    /\ last.ret = Ptr(rb[last.r].tail)

\* The bytes the last consuming call delivered: none when it was refused or
\* when write(2) failed or wrote nothing.
Delivered ==
    IF Did("write") THEN (IF last.ret.val > 0 THEN last.ret.val ELSE 0)
    ELSE Moved

\* C35: ringbuf_memcpy_from, ringbuf_write and ringbuf_copy on its src,
\* refused or not, leave the head of the buffer they consume from and every
\* byte of its array as they were; its tail moves on by exactly the number
\* of bytes delivered, round the array, and those bytes are the ones that
\* were first in the buffer.
C35_ConsumersKeepHead ==
    (Did("memcpy_from") \/ Did("write") \/ Did("copy")) =>
        LET b == rb[last.r]
            old == Before(last.r)
        IN /\ b.head = old.head
           /\ b.buf = old.buf
           /\ b.size = old.size
           /\ b.tail = (old.tail + Delivered) % old.size
           /\ Delivered <= ringbuf_bytes_used(old)
           /\ ringbuf_bytes_used(b) = ringbuf_bytes_used(old) - Delivered
           /\ last.out = SubSeq(Live(old), 1, Delivered)
           /\ ~Did("copy") => \A o \in RB \ {last.r} : rb[o] = Before(o)

\* ringbuf_write was asked for two bytes lying across the end of the array
\* and delivered one: the tail went back to the start of the array.
C35_Witness ==
    /\ Did("write")
    /\ last.count = 2
    /\ last.ret = SSize(1)
    /\ Before(last.r).tail = Before(last.r).size - 1
    /\ rb[last.r].tail = 0
    /\ rb[last.r].head = Before(last.r).head
    /\ rb[last.r].head # 0

\* C36: no assert() of ringbuf_memcpy_into, ringbuf_read,
\* ringbuf_memcpy_from, ringbuf_write and ringbuf_copy fails, from any
\* reachable state and for any argument, when read(2) and write(2) return at
\* most the count they were given and ringbuf_copy is between two distinct
\* buffers: the cursor is below the end of the array, head + n is within
\* it, the buffer is full after an overflow, and the bytes used decrease by
\* the bytes consumed.
C36_NoAssertFails ==
    /\ ~aborted
    /\ last.inb
    /\ (Did("read") \/ Did("write")) => last.prim <= last.req
    /\ Did("copy") => last.peer # last.r
    /\ last.overflow => ringbuf_is_full(rb[IF Did("copy") THEN last.peer ELSE last.r])
    /\ \A r \in RB : rb[r].head < ringbuf_end(rb[r]) /\ rb[r].tail < ringbuf_end(rb[r])

\* ringbuf_read overflowed a buffer with a read that ended at the end of the
\* array: every assert of the call was evaluated, the one after the tail
\* fix-up included.
C36_Witness ==
    /\ Did("read")
    /\ last.overflow
    /\ last.prim >= 1
    /\ Before(last.r).head + last.prim = Before(last.r).size
    /\ rb[last.r].head = 0
    /\ ~aborted

\* C37: ringbuf_read called with count >= 1 asks read(2) for at least one
\* byte, in one call, also when the buffer is full (head is below the end
\* of the array in every reachable state), so that a 0 it returns is the 0
\* read(2) returned; ringbuf_write called with 1 <= count <= bytes_used()
\* asks write(2) for at least one byte.
C37_NoZeroLengthRequest ==
    /\ (Did("read") /\ last.count >= 1) =>
          /\ last.calls = 1
          /\ last.req >= 1
          /\ last.req = MIN(last.count, Before(last.r).size - Before(last.r).head)
          /\ last.ret = SSize(last.prim)
          /\ last.ret = SSize(0) => last.prim = 0
    /\ (Did("write") /\ last.count >= 1
          /\ last.count <= ringbuf_bytes_used(Before(last.r))) =>
          /\ last.calls = 1
          /\ last.req >= 1
          /\ last.req = MIN(last.count, Before(last.r).size - Before(last.r).tail)
          /\ last.ret = SSize(last.prim)

\* ringbuf_read on a full buffer asked read(2) for a byte and returned the 0
\* that read(2) returned.
C37_Witness ==
    /\ Did("read")
    /\ last.count >= 1
    /\ ringbuf_is_full(Before(last.r))
    /\ last.req >= 1
    /\ last.prim = 0
    /\ last.ret = SSize(0)

\* The drain loop is on its way: what it has handed to write(2) in at most
\* two calls is the beginning of the live bytes it started with, all of
\* them once the buffer is empty; after a first call that did not empty the
\* buffer, the rest lies at the start of the array; no assert failed.
DrainOnTrack ==
    Did("write") =>
        LET b == rb[last.r]
        IN /\ last.calls \in 1 .. 2
           /\ Len(last.out) <= Len(last.data)
           /\ last.out = SubSeq(last.data, 1, Len(last.out))
           /\ Live(b) = SubSeq(last.data, Len(last.out) + 1, Len(last.data))
           /\ ringbuf_is_empty(b) <=> last.out = last.data
           /\ ~ringbuf_is_empty(b) => (last.calls = 1 /\ b.tail = 0)
           /\ ~aborted

\* C38: from any reachable state in which the buffer holds bytes, with a
\* write(2) that writes every byte it is given, the loop that calls
\* ringbuf_write(rb, bytes_used()) until the buffer is empty comes to its
\* end, after at most two calls (one for each contiguous run), and the bytes
\* handed to write(2), in order, are the live bytes in FIFO order.
C38_DrainTerminates ==
    /\ []DrainOnTrack
    /\ \A r \in RB :
          (Did("write") /\ last.r = r) ~> (last.op = "none" /\ ringbuf_is_empty(rb[r]))

\* A drain of live bytes lying across the end of the array, not all equal,
\* ended with its second call.
C38_Witness ==
    /\ Did("write")
    /\ last.calls = 2
    /\ ringbuf_is_empty(rb[last.r])
    /\ Len(last.data) >= 2
    /\ last.out = last.data
    /\ last.data[1] # last.data[2]

\* C39: two buffers of the same size whose arrays start with different
\* contents, taken through the same calls with the same arguments, source
\* bytes and results of read(2) / write(2), agree after every call on what
\* was returned, on the bytes ringbuf_memcpy_from, ringbuf_write and
\* ringbuf_copy delivered, on what ringbuf_findchr found, and on head, tail,
\* bytes_used() and the live bytes; no assert fails in either.
C39_StaleBytesUnseen ==
    /\ \A r \in RB :
          /\ rb[Twin(r)].size = rb[r].size
          /\ rb[Twin(r)].head = rb[r].head
          /\ rb[Twin(r)].tail = rb[r].tail
          /\ ringbuf_bytes_used(rb[Twin(r)]) = ringbuf_bytes_used(rb[r])
          /\ Live(rb[Twin(r)]) = Live(rb[r])
    /\ last.op # "none" =>
          /\ last.mem[1] = last.ret
          /\ last.mem[2] = last.out
    /\ ~aborted

\* ringbuf_findchr missed a value in both runs although, in one of them
\* only, a cell outside the used bytes holds it.
C39_Witness ==
    /\ Did("findchr")
    /\ LET b == rb[last.r]
           t == rb[Twin(last.r)]
       IN /\ b.buf # t.buf
          /\ ringbuf_bytes_used(b) >= 1
          /\ last.count < ringbuf_bytes_used(b)
          /\ last.ret = SSize(ringbuf_bytes_used(b))
          /\ last.mem[1] = last.ret
          /\ \E i \in DOMAIN t.buf : t.buf[i] = last.data[1]
          /\ \A i \in DOMAIN b.buf : b.buf[i] # last.data[1]

\* C40: without mutual exclusion, a consumer that runs between the
\* statements of a ringbuf_memcpy_into on the same buffer finds head at
\* one-past-the-end of the array, outside 0 .. S - 1, exactly in the window
\* between head += n and the wrap test and nowhere else; what
\* ringbuf_bytes_used computes there is S, more than the capacity, when tail
\* is at the start of the array (S - tail otherwise); and a producer that
\* overflowed stores head + 1 in tail on its way out, whatever the consumer
\* has stored there.
C40_RaceWindow ==
    /\ \A r \in RB :
          /\ rb[r].head \in 0 .. rb[r].size
          /\ rb[r].tail \in 0 .. rb[r].size - 1
          /\ rb[r].head = rb[r].size => (last.pc = "wrap" /\ last.r = r)
    /\ (last.seen # Null /\ last.shead = rb[last.r].size) =>
          /\ last.seen = SSize(rb[last.r].size - last.stail)
          /\ (last.seen.val > ringbuf_capacity(rb[last.r])) <=> (last.stail = 0)
    /\ (last.pc = "done" /\ last.overflow /\ ~aborted) =>
          rb[last.r].tail = (rb[last.r].head + 1) % rb[last.r].size

\* The consumer found head at one-past-the-end and more bytes used than the
\* capacity, then took bytes and stored its tail; the producer, which had
\* overflowed, has stored another tail on its way out.
C40_Witness ==
    /\ last.pc = "done"
    /\ last.overflow
    /\ last.seen # Null
    /\ last.shead = rb[last.r].size
    /\ last.seen.val > ringbuf_capacity(rb[last.r])
    /\ last.ctail # Null
    /\ rb[last.r].tail # last.ctail.val
    /\ ~aborted

====
